---------------------------- MODULE Spec2Model ----------------------------
(***************************************************************************)
(* Content generation and publishing orchestrator of the parenting-content *)
(* automation service:                                                     *)
(*   - the Celery tasks of app/tasks/daily_content.py and their retry      *)
(*     branches                                        (SpecRetry),        *)
(*   - InstagramPublisher._check_rate_limit under concurrent callers       *)
(*                                                     (SpecRate),         *)
(*   - InstagramPublisher.publish_carousel / publish_video against the     *)
(*     platform                                        (SpecPublish),      *)
(*   - MagicalParentingContentEngine.generate_*_content (SpecGen),         *)
(*   - MagicalParentingContentEngine.get_daily_theme    (SpecCalendar),    *)
(*   - MagicalParentingContentEngine.generate_weekly_content (SpecWeekly), *)
(*   - MagicalParentingContentEngine.generate_bot_teaser_campaign          *)
(*                                                     (SpecCampaign),     *)
(*   - InstagramPublisher.schedule_content and _calculate_optimal_time     *)
(*                                                     (SpecSchedule),     *)
(*   - InstagramPublisher._estimate_engagement         (SpecEngagement),   *)
(*   - the publishing operations under a fair scheduler (SpecPublishLive), *)
(*   - publish_scheduled_content with the publisher each execution builds  *)
(*                                                     (SpecTaskPublish),  *)
(*   - the tasks under a fair worker and queue         (SpecRetryLive),    *)
(*   - schedule_content followed by publishing operations                  *)
(*                                                 (SpecSchedulePublish).  *)
(* Every specification moves its own group of variables and leaves the     *)
(* others at their initial values.                                         *)
(***************************************************************************)
EXTENDS Integers, Sequences, FiniteSets, TLC

VARIABLES
    \* ---- one Celery task instance (daily_content.py)
    task,               \* which @shared_task this instance is
    tstate,             \* Pending | Running | Retrying | Success | Failed
    retries,            \* self.request.retries
    executions,         \* how many times the task function has been entered
    excLog,             \* exception raised by each execution, in order (NoExc: it returned)
    delays,             \* countdown passed to each self.retry(...), in order
    trace,              \* the states visited, in order
    propagated,         \* the exception re-raised by the bare raise at the terminal state
    cancelled,          \* an external cancellation signal has been sent
    execAtCancel,       \* executions at the moment the signal was sent
    envLog,             \* what each execution of the task function met
    returned,           \* the dict the task function returned
    \* ---- the rate window of one InstagramPublisher and the wall clock
    request_count,      \* self.request_count
    last_request_time,  \* self.last_request_time (seconds)
    clock,              \* datetime.now() (seconds)
    \* ---- concurrent callers of _check_rate_limit
    cstate,             \* per caller: idle | sleeping
    wakeAt,             \* per caller: when its asyncio.sleep is due
    callIdx,            \* per caller: ordinal of its latest call within the window it arrived in
    callElapsed,        \* per caller: now - last_request_time when its latest call tested the limit
    callWinStart,       \* per caller: last_request_time when its latest call tested the limit
    callSuspended,      \* per caller: its latest call went through asyncio.sleep
    callReturned,       \* per caller: clock when its latest call returned (-1: not yet)
    callsInWindow,      \* calls begun since last_request_time was last set
    ver,                \* number of writes so far to the (request_count, last_request_time) pair
    obsVer,             \* per caller: ver when its latest call tested request_count
    usedVers,           \* the observed versions on which some call has proceeded
    dupProceed,         \* some call proceeded on a version another call had already proceeded on
    windowOpenedAt,     \* when the window now running was opened: by a reset, or by a
                        \* resuming caller once the window before it had run its 3600 s
    admittedInWindow,   \* the calls that left _check_rate_limit since then
    nCalls,             \* _check_rate_limit calls begun so far
    \* ---- one publish operation at a time on the publisher
    op,                 \* none | carousel | video
    ppc,                \* idle | sleeping | create | publish | done
    nUrls,              \* len(image_urls) (1 for a video)
    nSlides,            \* len(content.slides) (0 for a video, which reads no slide)
    media_ids,          \* the media ids collected so far
    opLog,              \* the outbound HTTP requests of this operation, in order
    result,             \* the dict the operation returned
    pWakeAt,            \* when the operation's asyncio.sleep is due
    opsDone,            \* operations begun so far
    sentInWindow,       \* outbound HTTP requests sent inside the window since its start
    \* ---- one generate_carousel_content / generate_video_content call
    gkind,              \* carousel | video
    gtheme,             \* the DayTheme argument (1..7)
    gtopic,             \* the topic argument (NoTopic: absent)
    gpc,                \* start | visual | caption | done
    gprimary,           \* the random draws and the outcome of the primary backend call
    gsteps,             \* outcomes of the sub-steps performed so far
    piece,              \* the ContentPiece returned
    graised,            \* an exception left the operation
    gcalls,             \* number of the call in progress (also its clock reading)
    fallbacks,          \* the fallback pieces returned so far, with the draws of their calls
    \* ---- get_daily_theme over consecutive days
    today,              \* datetime.now(), as a date ordinal
    themeLog,           \* the theme get_daily_theme returned on each day it was called
    \* ---- one generate_weekly_content call
    wnow,               \* datetime.now(), as a date ordinal
    day_num,            \* the loop index
    wpc,                \* next | carousel | video | done
    date,               \* the loop's `date` (ordinal)
    content_pieces,     \* the day's list
    weekly_content,     \* the dict being built: date key -> list of pieces
    wevents,            \* starts and returns of the generations, in order
    wfailed,            \* generations whose backend failed
    wrolled,            \* midnights passed since the call began
    \* ---- one generate_bot_teaser_campaign call
    cidx,               \* topics done
    cpc,                \* next | generating | done
    campaign_content,   \* the list being built
    cevents,            \* starts and returns of the generations, in order
    \* ---- one schedule_content call
    batch,              \* len(content_pieces)
    sidx,               \* the loop index
    spc,                \* loop | done | raised
    scheduled_posts,    \* the list being built
    \* ---- one _estimate_engagement call
    econcept,           \* content.psychology_concept
    emotif,             \* content.magical_element
    ekind,              \* content.content_type
    etheme,             \* content.theme
    estimate,           \* the dict returned
    \* ---- one publish_scheduled_content call and the platform it talks to
    content_id,         \* the kind of value passed as content_id
    platform,           \* how the platform answers: always_200 | any
    publishesAccepted   \* media_publish requests answered with status 200, over all attempts

retryVars == <<task, tstate, retries, executions, excLog, delays, trace,
               propagated, cancelled, execAtCancel, envLog, returned>>
windowVars == <<request_count, last_request_time, clock>>
callerVars == <<cstate, wakeAt, callIdx, callElapsed, callWinStart, callSuspended,
                callReturned, callsInWindow, ver, obsVer, usedVers, dupProceed, nCalls,
                windowOpenedAt, admittedInWindow>>
pubVars == <<op, ppc, nUrls, nSlides, media_ids, opLog, result, pWakeAt, opsDone,
             sentInWindow>>
genVars == <<gkind, gtheme, gtopic, gpc, gprimary, gsteps, piece, graised, gcalls,
             fallbacks>>
calVars == <<today, themeLog>>
weekVars == <<wnow, day_num, wpc, date, content_pieces, weekly_content, wevents,
              wfailed, wrolled>>
campVars == <<cidx, cpc, campaign_content, cevents>>
schedVars == <<batch, sidx, spc, scheduled_posts>>
engVars == <<econcept, emotif, ekind, etheme, estimate>>
callVars == <<content_id, platform, publishesAccepted>>
vars == <<retryVars, windowVars, callerVars, pubVars, genVars, calVars, weekVars,
          campVars, schedVars, engVars, callVars>>

-----------------------------------------------------------------------------
(* Bounds of the model *)

\* concurrent callers of _check_rate_limit
NCallers == 2
\* settings.instagram_rate_limit as configured for the model (default 200)
RateLimit == 2
\* clock ticks per rate window
TicksPerWindow == 2
\* rate windows the clock runs through
MaxWindows == 2
\* longest image_urls list
MaxUrls == 3
\* longest content.slides list
MaxSlides == 1
\* publish operations per run
MaxOps == 3
\* _check_rate_limit calls per run
MaxCalls == 5
\* longest "slides" / "script_sections" list in a backend response
MaxRespSlides == 5
\* calls of one generation operation per run
MaxGenCalls == 2
\* days the calendar runs on after the latest start day
MaxDays == 8
\* midnights passing during one weekly batch
MaxRollovers == 1
\* generations of one weekly batch whose backend fails
MaxFailures == 2
\* longest content_pieces list given to schedule_content
MaxBatch == 9


-----------------------------------------------------------------------------
(* The Celery tasks: app/tasks/daily_content.py *)

Tasks == {"generate_daily_content", "generate_weekly_content",
          "generate_bot_teaser_campaign", "publish_scheduled_content"}

NoExc == "none"

\* @shared_task(bind=True, max_retries=3)
max_retries == 3

\* What one execution of the task function meets. A generation task builds the
\* engine (ValueError without an API key), sets up an event loop and awaits the
\* engine, which recovers backend failures itself; the publish task builds the
\* publisher (ValueError without a token), dispatches on content_type and raises
\* Exception(result["error"]) on an error result.
Envs(t) ==
    IF t = "publish_scheduled_content"
    THEN {"ok", "no_access_token", "invalid_content_type",
          "media_creation_failed", "publishing_failed", "publisher_exception"}
    ELSE {"ok", "backend_down", "no_api_key", "event_loop_error"}

HandlerCatchesApiOnly(exc) == exc = "APIError"
HandlerCatchesNothing(exc) == FALSE
\* `except Exception as e:` around the body of both generation operations of the engine
HandlerCatches(exc) == exc \in {"APIError", "JSONDecodeError", "AttributeError",
                                "KeyError", "TypeError"}

\* What the engine's generation operations hand to the task function: content
\* built from the backend's answers, the fallback content their handler returns
\* when the backend call raises, or the exception itself if it is not caught.
EngineOutcome(env) ==
    IF env = "backend_down"
    THEN IF HandlerCatches("APIError") THEN "fallback" ELSE "APIError"
    ELSE "backend"

\* The exception that reaches the task's `except Exception as exc`, NoExc when the
\* try block returns.
TaskBody(t, env) ==
    IF t = "publish_scheduled_content"
    THEN CASE env = "ok" -> NoExc
           [] env = "no_access_token" -> "ValueError: Instagram access token is required"
           [] env = "invalid_content_type" -> "ValueError: Invalid content type"
           [] env = "media_creation_failed" -> "Exception: Media creation failed"
           [] env = "publishing_failed" -> "Exception: Publishing failed"
           [] env = "publisher_exception" -> "Exception: str(e)"
    ELSE CASE env = "ok" -> NoExc
           [] env = "backend_down" -> IF EngineOutcome(env) = "fallback" THEN NoExc
                                      ELSE EngineOutcome(env)
           [] env = "no_api_key" -> "ValueError: OpenAI API key is required"
           [] env = "event_loop_error" -> "OSError: new_event_loop"

NoReturn == [status |-> "none"]
\* the dict the try block returns
TaskResult(t, env) ==
    IF t = "publish_scheduled_content"
    THEN [status |-> "success", content |-> "published"]
    ELSE [status |-> "success", content |-> EngineOutcome(env)]

RECURSIVE Pow2(_)
Pow2(n) == IF n = 0 THEN 1 ELSE 2 * Pow2(n - 1)

\* the factor of `2 ** self.request.retries * <base>` in each retry branch
BaseDelay(t) ==
    CASE t = "generate_daily_content" -> 60
      [] t = "generate_weekly_content" -> 300
      [] t = "generate_bot_teaser_campaign" -> 600
      [] t = "publish_scheduled_content" -> 300

RetryDelayLinear(t, r) == (r + 1) * BaseDelay(t)
\* retry_delay = 2 ** self.request.retries * <base>
RetryDelay(t, r) == Pow2(r) * BaseDelay(t)

ShouldRetryUpTo2(r) == r < 2
ShouldRetryAlways(r) == r < max_retries + 1
\* if self.request.retries < self.max_retries:
ShouldRetry(r) == r < max_retries

RetryInit(T) ==
    /\ task \in T
    /\ tstate = "Pending"
    /\ retries = 0
    /\ executions = 0
    /\ excLog = <<>>
    /\ delays = <<>>
    /\ trace = <<"Pending">>
    /\ propagated = NoExc
    /\ cancelled = FALSE
    /\ execAtCancel = 0
    /\ envLog = <<>>
    /\ returned = NoReturn

\* A worker takes the task message and enters the task function.
Start ==
    /\ tstate = "Pending"
    /\ tstate' = "Running"
    /\ executions' = executions + 1
    /\ trace' = Append(trace, "Running")
    /\ UNCHANGED <<task, retries, excLog, delays, propagated, cancelled, execAtCancel,
                   envLog, returned>>
    /\ UNCHANGED <<windowVars, callerVars, pubVars, genVars, calVars, weekVars, campVars, schedVars, engVars, callVars>>

\* The task function met env: the try block returns, or its exception goes
\* through the retry branch (raise self.retry(countdown=..., exc=exc), or the
\* bare raise).
RunTask(env) ==
    LET exc == TaskBody(task, env) IN
    /\ excLog' = Append(excLog, exc)
    /\ envLog' = Append(envLog, env)
    /\ IF exc = NoExc
       THEN /\ tstate' = "Success"
            /\ returned' = TaskResult(task, env)
            /\ UNCHANGED <<delays, propagated>>
       ELSE IF ShouldRetry(retries)
       THEN /\ tstate' = "Retrying"
            /\ delays' = Append(delays, RetryDelay(task, retries))
            /\ UNCHANGED <<propagated, returned>>
       ELSE /\ tstate' = "Failed"
            /\ propagated' = exc
            /\ UNCHANGED <<delays, returned>>
    /\ trace' = Append(trace, tstate')
    /\ UNCHANGED <<task, retries, executions, cancelled, execAtCancel>>

\* One execution of the task function.
Execute ==
    /\ tstate = "Running"
    /\ \E env \in Envs(task) : RunTask(env)
    /\ UNCHANGED <<windowVars, callerVars, pubVars, genVars, calVars, weekVars, campVars, schedVars, engVars, callVars>>

\* The countdown of self.retry has run out: the queue delivers the task again,
\* with request.retries one higher.
RedeliverTask ==
    /\ tstate = "Retrying"
    /\ tstate' = "Running"
    /\ retries' = retries + 1
    /\ executions' = executions + 1
    /\ trace' = Append(trace, "Running")
    /\ UNCHANGED <<task, excLog, delays, propagated, cancelled, execAtCancel,
                   envLog, returned>>

Redeliver ==
    /\ RedeliverTask
    /\ UNCHANGED <<windowVars, callerVars, pubVars, genVars, calVars, weekVars, campVars, schedVars, engVars, callVars>>

\* An operator sends a cancellation signal to the operation while it waits out
\* its backoff delay. Nothing in the task functions or their retry branches
\* reads such a signal, so no variable of the task changes.
Cancel ==
    /\ ~cancelled
    /\ tstate = "Retrying"
    /\ cancelled' = TRUE
    /\ execAtCancel' = executions
    /\ UNCHANGED <<task, tstate, retries, executions, excLog, delays, trace, propagated,
                   envLog, returned>>
    /\ UNCHANGED <<windowVars, callerVars, pubVars, genVars, calVars, weekVars, campVars, schedVars, engVars, callVars>>

RetryNext == Start \/ Execute \/ Redeliver \/ Cancel


-----------------------------------------------------------------------------
(* The rate window: InstagramPublisher.__init__ and _check_rate_limit *)

\* the 3600 of `(now - self.last_request_time).total_seconds() > 3600`
Window == 3600

\* self.rate_limit = settings.instagram_rate_limit
rate_limit == RateLimit

TickStep == Window \div TicksPerWindow
MaxClock == Window * MaxWindows

Callers == 1 .. NCallers

\* if (now - self.last_request_time).total_seconds() > 3600:
Expired(l, now) == now - l > Window

CountAfterResetKeeping(c, l, now) == c
\* self.request_count / self.last_request_time after the reset test
CountAfterReset(c, l, now) == IF Expired(l, now) THEN 0 ELSE c
StartAfterReset(l, now) == IF Expired(l, now) THEN now ELSE l

AboveLimit(c) == c > rate_limit
\* if self.request_count >= self.rate_limit:
AtLimit(c) == c >= rate_limit

WaitTimeNone(l, now) == 0
\* wait_time = 3600 - (now - self.last_request_time).total_seconds()
WaitTime(l, now) == Window - (now - l)

\* the call goes through `await asyncio.sleep(wait_time)`
MustSleep(c, l, now) == AtLimit(c) /\ WaitTime(l, now) > 0

WindowInit ==
    /\ request_count = 0
    /\ last_request_time = 0
    /\ clock = 0

CallerInit ==
    /\ cstate = [p \in Callers |-> "idle"]
    /\ wakeAt = [p \in Callers |-> 0]
    /\ callIdx = [p \in Callers |-> 0]
    /\ callElapsed = [p \in Callers |-> 0]
    /\ callWinStart = [p \in Callers |-> 0]
    /\ callSuspended = [p \in Callers |-> FALSE]
    /\ callReturned = [p \in Callers |-> -1]
    /\ callsInWindow = 0
    /\ ver = 0
    /\ obsVer = [p \in Callers |-> 0]
    /\ usedVers = {}
    /\ dupProceed = FALSE
    /\ windowOpenedAt = 0
    /\ admittedInWindow = 0
    /\ nCalls = 0

\* Time passes.
Tick ==
    /\ clock + TickStep <= MaxClock
    /\ clock' = clock + TickStep
    /\ UNCHANGED <<request_count, last_request_time>>
    /\ UNCHANGED <<retryVars, callerVars, pubVars, genVars, calVars, weekVars, campVars, schedVars, engVars, callVars>>

\* Caller p enters _check_rate_limit and runs to its first suspension point: the
\* reset test, the limit test, and then either the increment (it returns) or
\* the start of asyncio.sleep. No await separates these statements.
Call(p) ==
    /\ cstate[p] = "idle"
    /\ nCalls < MaxCalls
    /\ nCalls' = nCalls + 1
    /\ LET now == clock
           reset == Expired(last_request_time, now)
           c1 == CountAfterReset(request_count, last_request_time, now)
           l1 == StartAfterReset(last_request_time, now)
           v1 == IF reset THEN ver + 1 ELSE ver
           idx == IF reset THEN 1 ELSE callsInWindow + 1
       IN /\ last_request_time' = l1
          /\ callsInWindow' = idx
          /\ callIdx' = [callIdx EXCEPT ![p] = idx]
          /\ callElapsed' = [callElapsed EXCEPT ![p] = now - l1]
          /\ callWinStart' = [callWinStart EXCEPT ![p] = l1]
          /\ obsVer' = [obsVer EXCEPT ![p] = v1]
          /\ IF MustSleep(c1, l1, now)
             THEN /\ cstate' = [cstate EXCEPT ![p] = "sleeping"]
                  /\ wakeAt' = [wakeAt EXCEPT ![p] = now + WaitTime(l1, now)]
                  /\ request_count' = c1
                  /\ ver' = v1
                  /\ callSuspended' = [callSuspended EXCEPT ![p] = TRUE]
                  /\ callReturned' = [callReturned EXCEPT ![p] = -1]
                  /\ UNCHANGED <<usedVers, dupProceed, windowOpenedAt, admittedInWindow>>
             ELSE /\ request_count' = c1 + 1
                  /\ ver' = v1 + 1
                  /\ callSuspended' = [callSuspended EXCEPT ![p] = FALSE]
                  /\ callReturned' = [callReturned EXCEPT ![p] = now]
                  /\ usedVers' = usedVers \cup {v1}
                  /\ dupProceed' = (dupProceed \/ v1 \in usedVers)
                  /\ windowOpenedAt' = IF reset THEN now ELSE windowOpenedAt
                  /\ admittedInWindow' = IF reset THEN 1 ELSE admittedInWindow + 1
                  /\ UNCHANGED <<cstate, wakeAt>>
    /\ UNCHANGED clock
    /\ UNCHANGED <<retryVars, pubVars, genVars, calVars, weekVars, campVars, schedVars, engVars, callVars>>

\* Caller p's asyncio.sleep returns: it sets request_count to 0 and
\* last_request_time to datetime.now() without testing either again, then
\* increments and returns.
Wake(p) ==
    /\ cstate[p] = "sleeping"
    /\ clock >= wakeAt[p]
    /\ cstate' = [cstate EXCEPT ![p] = "idle"]
    /\ request_count' = 0 + 1
    /\ last_request_time' = clock
    /\ ver' = ver + 2
    /\ callsInWindow' = 1
    /\ callReturned' = [callReturned EXCEPT ![p] = clock]
    /\ usedVers' = usedVers \cup {obsVer[p]}
    /\ dupProceed' = (dupProceed \/ obsVer[p] \in usedVers)
    /\ windowOpenedAt' = IF clock - windowOpenedAt >= Window THEN clock
                         ELSE windowOpenedAt
    /\ admittedInWindow' = IF clock - windowOpenedAt >= Window THEN 1
                           ELSE admittedInWindow + 1
    /\ UNCHANGED <<clock, wakeAt, callIdx, callElapsed, callWinStart, callSuspended,
                   obsVer, nCalls>>
    /\ UNCHANGED <<retryVars, pubVars, genVars, calVars, weekVars, campVars, schedVars, engVars, callVars>>

RateNext ==
    \/ Tick
    \/ \E p \in Callers : Call(p)
    \/ \E p \in Callers : Wake(p)


-----------------------------------------------------------------------------
(* InstagramPublisher.publish_carousel and publish_video *)

\* response.json().get("id") when the body carries no id (None)
NoId == 0
\* the platform hands out a new identifier with every object it creates: the
\* one created by the j-th request of an operation is written j
FreshId(log) == Len(log) + 1
\* what a requests.post meets: status 200, another status, or an exception
\* (requests.post or response.json() raising)
Responses == {"200", "400", "raises"}
RetIds(resp, log) == IF resp = "200" THEN {FreshId(log), NoId} ELSE {NoId}

NoResult == [status |-> "none", id |-> NoId, error |-> ""]
Published(rid) == [status |-> "published", id |-> rid, error |-> ""]
Error(msg) == [status |-> "error", id |-> NoId, error |-> msg]

\* one outbound request: endpoint, position in image_urls (0: none), the slide
\* used as caption (0: the empty string), the media ids it references, and
\* the platform's answer
Req(kind, pos, slide, refs, resp, rid) ==
    [kind |-> kind, pos |-> pos, slide |-> slide, refs |-> refs,
     resp |-> resp, rid |-> rid]

SlideCaptionUnchecked(i, slides) == i
\* "caption": content.slides[i] if i < len(content.slides) else ""
SlideCaption(i, slides) == IF i <= slides THEN i ELSE 0

CarouselAfterCreateSkipping(resp, rid, ids, n) ==
    IF resp = "200"
    THEN [pc |-> IF Len(ids) + 1 >= n THEN "publish" ELSE "create",
          ids |-> Append(ids, rid), res |-> NoResult]
    ELSE [pc |-> IF Len(ids) + 1 >= n THEN "publish" ELSE "create",
          ids |-> Append(ids, NoId), res |-> NoResult]
\* the body of the media loop after requests.post: append the id on 200, return
\* {"error": "Media creation failed: ..."} otherwise; an exception goes to the
\* except clause, which returns {"error": str(e)}
CarouselAfterCreate(resp, rid, ids, n) ==
    IF resp = "200"
    THEN [pc |-> IF Len(ids) + 1 >= n THEN "publish" ELSE "create",
          ids |-> Append(ids, rid), res |-> NoResult]
    ELSE IF resp = "raises"
    THEN [pc |-> "done", ids |-> ids, res |-> Error("exception")]
    ELSE [pc |-> "done", ids |-> ids, res |-> Error("Media creation failed")]

CarouselAfterPublishDroppingFailure(resp, rid) ==
    IF resp = "400" THEN Error("Publishing failed") ELSE Published(rid)
\* after the media_publish request of a carousel
CarouselAfterPublish(resp, rid) ==
    IF resp = "200" THEN Published(rid)
    ELSE IF resp = "raises" THEN Error("exception")
    ELSE Error("Publishing failed")

VideoAfterCreateAlwaysPublishing(resp, rid) ==
    IF resp = "raises"
    THEN [pc |-> "done", ids |-> <<>>, res |-> Error("exception")]
    ELSE [pc |-> "publish", ids |-> <<rid>>, res |-> NoResult]
\* publish_video after the media request: go on to media_publish only on 200
VideoAfterCreate(resp, rid) ==
    IF resp = "200"
    THEN [pc |-> "publish", ids |-> <<rid>>, res |-> NoResult]
    ELSE IF resp = "raises"
    THEN [pc |-> "done", ids |-> <<>>, res |-> Error("exception")]
    ELSE [pc |-> "done", ids |-> <<>>, res |-> Error("Video media creation failed")]

\* after the media_publish request of a video
VideoAfterPublish(resp, rid) ==
    IF resp = "200" THEN Published(rid)
    ELSE IF resp = "raises" THEN Error("exception")
    ELSE Error("Video publishing failed")

PubInit ==
    /\ op = "none"
    /\ ppc = "idle"
    /\ nUrls = 0
    /\ nSlides = 0
    /\ media_ids = <<>>
    /\ opLog = <<>>
    /\ result = NoResult
    /\ pWakeAt = 0
    /\ opsDone = 0
    /\ sentInWindow = 0

\* where the operation stands once _check_rate_limit has returned
AfterGate(kind, n) == IF kind = "carousel" /\ n = 0 THEN "publish" ELSE "create"

\* An operation is called and runs `await self._check_rate_limit()` to its first
\* suspension point.
Begin(kind, n, k) ==
    /\ ppc \in {"idle", "done"}
    /\ opsDone < MaxOps
    /\ opsDone' = opsDone + 1
    /\ op' = kind
    /\ nUrls' = n
    /\ nSlides' = k
    /\ media_ids' = <<>>
    /\ opLog' = <<>>
    /\ result' = NoResult
    /\ LET now == clock
           c1 == CountAfterReset(request_count, last_request_time, now)
           l1 == StartAfterReset(last_request_time, now)
       IN /\ last_request_time' = l1
          /\ sentInWindow' = IF Expired(last_request_time, now) THEN 0 ELSE sentInWindow
          /\ IF MustSleep(c1, l1, now)
             THEN /\ ppc' = "sleeping"
                  /\ pWakeAt' = now + WaitTime(l1, now)
                  /\ request_count' = c1
             ELSE /\ ppc' = AfterGate(kind, n)
                  /\ request_count' = c1 + 1
                  /\ UNCHANGED pWakeAt
    /\ UNCHANGED clock
    /\ UNCHANGED <<retryVars, callerVars, genVars, calVars, weekVars, campVars, schedVars, engVars, callVars>>

\* The operation's asyncio.sleep returns and _check_rate_limit finishes.
PWake ==
    /\ ppc = "sleeping"
    /\ clock >= pWakeAt
    /\ request_count' = 0 + 1
    /\ last_request_time' = clock
    /\ sentInWindow' = 0
    /\ ppc' = AfterGate(op, nUrls)
    /\ UNCHANGED <<clock, op, nUrls, nSlides, media_ids, opLog, result, pWakeAt, opsDone>>
    /\ UNCHANGED <<retryVars, callerVars, genVars, calVars, weekVars, campVars, schedVars, engVars, callVars>>

\* requests counted against the window they are sent in
Sent == IF clock - last_request_time <= Window THEN sentInWindow + 1 ELSE sentInWindow

\* One round of the media loop of publish_carousel: POST /{account}/media for
\* the next image url and the handling of its response.
CreateMedia ==
    /\ op = "carousel"
    /\ ppc = "create"
    /\ \E resp \in Responses : \E rid \in RetIds(resp, opLog) :
         LET i == Len(media_ids) + 1
             nx == CarouselAfterCreate(resp, rid, media_ids, nUrls)
         IN /\ opLog' = Append(opLog, Req("media", i, SlideCaption(i, nSlides),
                                          <<>>, resp, rid))
            /\ media_ids' = nx.ids
            /\ ppc' = nx.pc
            /\ result' = nx.res
    /\ sentInWindow' = Sent
    /\ UNCHANGED <<windowVars, op, nUrls, nSlides, pWakeAt, opsDone>>
    /\ UNCHANGED <<retryVars, callerVars, genVars, calVars, weekVars, campVars, schedVars, engVars, callVars>>

\* POST /{account}/media_publish with children = media_ids, and the return.
PublishCarousel ==
    /\ op = "carousel"
    /\ ppc = "publish"
    /\ \E resp \in Responses : \E rid \in RetIds(resp, opLog) :
         /\ opLog' = Append(opLog, Req("media_publish", 0, 0, media_ids, resp, rid))
         /\ result' = CarouselAfterPublish(resp, rid)
    /\ ppc' = "done"
    /\ sentInWindow' = Sent
    /\ UNCHANGED <<windowVars, op, nUrls, nSlides, media_ids, pWakeAt, opsDone>>
    /\ UNCHANGED <<retryVars, callerVars, genVars, calVars, weekVars, campVars, schedVars, engVars, callVars>>

\* publish_video: POST /{account}/media (REELS) and the handling of its response.
CreateVideoMedia ==
    /\ op = "video"
    /\ ppc = "create"
    /\ \E resp \in Responses : \E rid \in RetIds(resp, opLog) :
         LET nx == VideoAfterCreate(resp, rid)
         IN /\ opLog' = Append(opLog, Req("media", 1, 0, <<>>, resp, rid))
            /\ media_ids' = nx.ids
            /\ ppc' = nx.pc
            /\ result' = nx.res
    /\ sentInWindow' = Sent
    /\ UNCHANGED <<windowVars, op, nUrls, nSlides, pWakeAt, opsDone>>
    /\ UNCHANGED <<retryVars, callerVars, genVars, calVars, weekVars, campVars, schedVars, engVars, callVars>>

\* publish_video: POST /{account}/media_publish with creation_id = media_id.
PublishVideo ==
    /\ op = "video"
    /\ ppc = "publish"
    /\ \E resp \in Responses : \E rid \in RetIds(resp, opLog) :
         /\ opLog' = Append(opLog, Req("media_publish", 0, 0, media_ids, resp, rid))
         /\ result' = VideoAfterPublish(resp, rid)
    /\ ppc' = "done"
    /\ sentInWindow' = Sent
    /\ UNCHANGED <<windowVars, op, nUrls, nSlides, media_ids, pWakeAt, opsDone>>
    /\ UNCHANGED <<retryVars, callerVars, genVars, calVars, weekVars, campVars, schedVars, engVars, callVars>>

PubNext ==
    \/ Tick
    \/ \E n \in 0 .. MaxUrls : \E k \in 0 .. MaxSlides : Begin("carousel", n, k)
    \/ Begin("video", 1, 0)
    \/ PWake
    \/ CreateMedia
    \/ PublishCarousel
    \/ CreateVideoMedia
    \/ PublishVideo


-----------------------------------------------------------------------------
(* publish_scheduled_content with the publisher it builds *)

\* instagram_publisher = InstagramPublisher(): __init__ raises ValueError when
\* the access token is missing, before the window fields are assigned
PublisherBuilt(env) == env # "no_access_token"

\* the dispatch on content_type reached publish_carousel or publish_video, whose
\* first statement is `await self._check_rate_limit()`
GatePassed(env) == env \notin {"no_access_token", "invalid_content_type"}

\* the window fields of a new InstagramPublisher:
\* self.request_count = 0; self.last_request_time = datetime.now()
NewPublisherWindow(now) == [request_count |-> 0, last_request_time |-> now]

\* the content types the dispatch of the task function knows
PublishTypes == {"carousel", "video"}

\* What a request of the task's publisher meets: the answers of the publishing
\* operations, and status 200 with a body that is not JSON, on which
\* response.json() raises after the status test
TaskResponses == Responses \cup {"200_unreadable"}
PlatformAnswers(pf) == IF pf = "always_200" THEN {"200"} ELSE TaskResponses

\* what the handling of a response goes by: a 200 whose body cannot be parsed
\* leaves the try block as an exception
Seen(resp) == IF resp = "200_unreadable" THEN "raises" ELSE resp
TaskRid(resp, log) == IF resp = "200" THEN FreshId(log) ELSE NoId

\* the platform has taken the request: it answered with status 200
AcceptedByPlatform(req) == req.resp \in {"200", "200_unreadable"}
PublishesAcceptedIn(log) ==
    Cardinality({i \in 1 .. Len(log) :
                    log[i].kind = "media_publish" /\ AcceptedByPlatform(log[i])})

\* publish_carousel from its media loop on, with the platform's answers taken
\* from ans in the order of the requests: the requests sent and the dict returned
RECURSIVE CarouselRun(_, _, _, _, _)
CarouselRun(ans, ids, log, n, k) ==
    LET resp == ans[Len(log) + 1]
        rid == TaskRid(resp, log)
    IN IF Len(ids) >= n
       THEN [log |-> Append(log, Req("media_publish", 0, 0, ids, resp, rid)),
             res |-> CarouselAfterPublish(Seen(resp), rid)]
       ELSE LET i == Len(ids) + 1
                nx == CarouselAfterCreate(Seen(resp), rid, ids, n)
                lg == Append(log, Req("media", i, SlideCaption(i, k), <<>>, resp, rid))
            IN IF nx.pc = "done"
               THEN [log |-> lg, res |-> nx.res]
               ELSE CarouselRun(ans, nx.ids, lg, n, k)

\* publish_video after its rate check, on media_urls[0]
VideoRun(ans) ==
    LET r1 == ans[1]
        id1 == TaskRid(r1, <<>>)
        nx == VideoAfterCreate(Seen(r1), id1)
        lg1 == <<Req("media", 1, 0, <<>>, r1, id1)>>
    IN IF nx.pc = "done"
       THEN [log |-> lg1, res |-> nx.res]
       ELSE LET r2 == ans[2]
                id2 == TaskRid(r2, lg1)
            IN [log |-> Append(lg1, Req("media_publish", 0, 0, nx.ids, r2, id2)),
                res |-> VideoAfterPublish(Seen(r2), id2)]

\* The publishing operation the task calls, on the value it was handed as
\* content_id. The operations read content.slides, content.caption and
\* content.hashtags before their first request: on an integer, the declared
\* type of content_id and what the JSON task message carries, the attribute
\* access raises AttributeError inside the operation's try block, whose
\* handler returns {"error": str(e)}; no request has been sent.
PublisherRun(cid, ctype, n, k, ans) ==
    IF cid = "integer"
    THEN [log |-> <<>>, res |-> Error("exception")]
    ELSE IF ctype = "carousel" THEN CarouselRun(ans, <<>>, <<>>, n, k)
    ELSE VideoRun(ans)

\* what this execution of the task function met
AttemptEnv(token, ctype, res) ==
    IF ~token THEN "no_access_token"
    ELSE IF ctype \notin PublishTypes THEN "invalid_content_type"
    ELSE IF res.status = "published" THEN "ok"
    ELSE IF res.error = "exception" THEN "publisher_exception"
    ELSE IF res.error \in {"Media creation failed", "Video media creation failed"}
    THEN "media_creation_failed"
    ELSE "publishing_failed"

\* One execution of publish_scheduled_content. The function is synchronous
\* (loop.run_until_complete): it builds a publisher, runs the publishing
\* operation on it and returns, or goes through its retry branch.
\* request_count and last_request_time are those of the publisher built here;
\* with a count of 0 and rate_limit >= 1 its _check_rate_limit never sleeps.
AttemptPublish ==
    /\ task = "publish_scheduled_content"
    /\ tstate = "Running"
    /\ \E token \in BOOLEAN : \E ans \in [1 .. nUrls + 1 -> PlatformAnswers(platform)] :
         LET called == token /\ op \in PublishTypes
             run == IF called
                    THEN PublisherRun(content_id, op, nUrls, nSlides, ans)
                    ELSE [log |-> <<>>, res |-> NoResult]
             env == AttemptEnv(token, op, run.res)
         IN /\ RunTask(env)
            /\ opLog' = run.log
            /\ result' = run.res
            /\ publishesAccepted' = publishesAccepted + PublishesAcceptedIn(run.log)
            /\ IF ~PublisherBuilt(env)
               THEN UNCHANGED <<request_count, last_request_time>>
               ELSE LET w == NewPublisherWindow(clock)
                        c1 == CountAfterReset(w.request_count, w.last_request_time, clock)
                        l1 == StartAfterReset(w.last_request_time, clock)
                    IN /\ last_request_time' = l1
                       /\ GatePassed(env) => ~MustSleep(c1, l1, clock)
                       /\ request_count' = IF GatePassed(env) THEN c1 + 1 ELSE c1
    /\ UNCHANGED <<clock, content_id, platform>>
    /\ UNCHANGED <<op, ppc, nUrls, nSlides, media_ids, pWakeAt, opsDone, sentInWindow>>
    /\ UNCHANGED <<callerVars, genVars, calVars, weekVars, campVars, schedVars, engVars>>

\* The countdown of self.retry(countdown=retry_delay) runs out and the queue
\* delivers the task again.
RedeliverAfterCountdown ==
    /\ RedeliverTask
    /\ clock + delays[Len(delays)] <= MaxClock
    /\ clock' = clock + delays[Len(delays)]
    /\ UNCHANGED <<request_count, last_request_time>>
    /\ UNCHANGED <<callerVars, pubVars, genVars, calVars, weekVars, campVars, schedVars, engVars, callVars>>

\* the call: content_id is the integer the signature declares or an object
\* with the attributes of a ContentPiece, content_type is any string, and
\* media_urls holds one or two urls
TaskCallInit ==
    /\ op \in PublishTypes \cup {"story"}
    /\ nUrls \in {1, 2}
    /\ nSlides = 1
    /\ ppc = "idle"
    /\ media_ids = <<>>
    /\ opLog = <<>>
    /\ result = NoResult
    /\ pWakeAt = 0
    /\ opsDone = 0
    /\ sentInWindow = 0
    /\ content_id \in {"integer", "content_piece"}
    /\ platform \in {"always_200", "any"}
    /\ publishesAccepted = 0

TaskPublishNext == Start \/ AttemptPublish \/ RedeliverAfterCountdown \/ Tick


-----------------------------------------------------------------------------
(* MagicalParentingContentEngine.generate_carousel_content / _video_content *)

\* list(DayTheme), by position
Themes == 1 .. 7
Kinds == {"carousel", "video"}
\* `if not topic:`
NoTopic == ""
\* entries of self.trending_topics, self.psychology_concepts, self.magical_elements
TrendingTopics == {"toddler tantrums", "bedtime struggles"}
PsychologyConcepts == {"attachment theory", "growth mindset"}
MagicalElements == {"wizard patience", "dragon courage"}
\* topics a caller passes
Topics == {"test topic"}

\* words with a space between each two
Spaced(words) ==
    [i \in 1 .. 2 * Len(words) - 1 |-> IF i % 2 = 1 THEN words[(i + 1) \div 2] ELSE " "]

\* a topic string as its words and the separators between them
TopicTokens(topic) ==
    CASE topic = "test topic" -> <<"test", " ", "topic">>
      [] topic = "toddler tantrums" -> <<"toddler", " ", "tantrums">>
      [] topic = "bedtime struggles" -> <<"bedtime", " ", "struggles">>
      [] topic = "Behind the scenes: Building magical stories for your kids" ->
            Spaced(<<"Behind", "the", "scenes:", "Building", "magical", "stories",
                     "for", "your", "kids">>)
      [] topic = "What if bedtime stories adapted to your child's choices?" ->
            Spaced(<<"What", "if", "bedtime", "stories", "adapted", "to", "your",
                     "child's", "choices?">>)
      [] topic = "The psychology behind interactive storytelling" ->
            Spaced(<<"The", "psychology", "behind", "interactive", "storytelling">>)
      [] topic = "Sneak peek: AI that creates personalized fairy tales" ->
            Spaced(<<"Sneak", "peek:", "AI", "that", "creates", "personalized",
                     "fairy", "tales">>)
      [] OTHER -> <<topic>>

\* str.replace(old, new) on a tokenised string, old being a separator
Replace(s, old, new) ==
    IF new = "" THEN SelectSeq(s, LAMBDA t : t # old)
    ELSE [i \in 1 .. Len(s) |-> IF s[i] = old THEN new ELSE s[i]]

\* base_hashtags of _generate_hashtags
BaseHashtags ==
    << <<"#MagicalParenting">>, <<"#ParentingWisdom">>, <<"#ParentingTips">>,
       <<"#ChildPsychology">>, <<"#ParentingSupport">>, <<"#BedtimeStories">>,
       <<"#ParentingCommunity">>, <<"#RaisingKids">>, <<"#ParentingAdvice">> >>

\* theme_hashtags.get(theme, [])
ThemeHashtags(theme) ==
    CASE theme = 1 -> << <<"#MondayMotivation">>, <<"#ParentingMindset">> >>
      [] theme = 2 -> << <<"#TuesdayTales">>, <<"#Storytelling">> >>
      [] theme = 3 -> << <<"#WonderWednesday">>, <<"#ParentingQuestions">> >>
      [] theme = 4 -> << <<"#ThoughtfulParenting">>, <<"#DeepThoughts">> >>
      [] theme = 5 -> << <<"#FantasyFriday">>, <<"#WeekendFun">> >>
      [] theme = 6 -> << <<"#StorySaturday">>, <<"#FamilyTime">> >>
      [] theme = 7 -> << <<"#SereneParenting">>, <<"#SelfCare">> >>
      [] OTHER -> << >>

\* topic_hashtags: "#" + topic without its separators, "#" + topic with "Tips"
\* in place of each separator
TopicHashtags(topic) ==
    << <<"#">> \o Replace(Replace(TopicTokens(topic), " ", ""), "_", ""),
       <<"#">> \o Replace(Replace(TopicTokens(topic), " ", "Tips"), "_", "Tips") >>

\* the tags base_hashtags.extend(...) adds for a video
VideoHashtags == << <<"#ParentingVideo">>, <<"#InstagramVideo">>, <<"#ParentingReel">> >>

\* the 25 of all_hashtags[:25]
HashtagLimit == 25

\* s[:n]
Take(s, n) == SubSeq(s, 1, IF Len(s) < n THEN Len(s) ELSE n)

GenerateHashtagsVideoAlways(topic, theme, is_video) ==
    Take(BaseHashtags \o VideoHashtags \o ThemeHashtags(theme) \o TopicHashtags(topic),
         HashtagLimit)
\* _generate_hashtags(topic, theme, is_video)
GenerateHashtags(topic, theme, is_video) ==
    Take((IF is_video THEN BaseHashtags \o VideoHashtags ELSE BaseHashtags)
            \o ThemeHashtags(theme) \o TopicHashtags(topic),
         HashtagLimit)

\* the primary call: _call_openai raises, json.loads raises, the JSON is not an
\* object (so .get is missing), it is an object whose "slides" is a non-empty
\* mapping (so slides[0] is missing; read by the carousel only), or it is an
\* object with a list of slides
PrimaryOutcomes == {"api_error", "unparsable", "not_object", "bad_slides", "object"}
\* a secondary call (_call_openai and the parse of its response) works or raises
SubOutcomes == {"ok", "raises"}

NoPiece == [source |-> "none"]
NoPrimary == [out |-> "none"]

\* the exception a primary outcome raises at once, NoExc if none
PrimaryExc(out) ==
    CASE out = "api_error" -> "APIError"
      [] out = "unparsable" -> "JSONDecodeError"
      [] OTHER -> NoExc

FallbackContentKeepingConcept(theme, topic) ==
    [source |-> "fallback", theme |-> theme, content_type |-> "carousel",
     title |-> <<"Quick Tips for ", topic>>, slides |-> 5,
     caption |-> <<"Quick thoughts on ", topic, ". What works for your family?">>,
     hashtags |-> << <<"#ParentingTips">>, <<"#ParentingSupport">>, <<"#YouGotThis">> >>,
     visual_prompts |-> <<"Simple, calming illustration">>,
     psychology_concept |-> IF gprimary.out = "none" THEN "general support"
                            ELSE gprimary.concept,
     magical_element |-> "gentle encouragement", target_age |-> "all",
     created_at |-> gcalls]
\* _generate_fallback_content(theme, topic); datetime.now() is the number of
\* the call in progress
FallbackContent(theme, topic) ==
    [source |-> "fallback", theme |-> theme, content_type |-> "carousel",
     title |-> <<"Quick Tips for ", topic>>, slides |-> 5,
     caption |-> <<"Quick thoughts on ", topic, ". What works for your family?">>,
     hashtags |-> << <<"#ParentingTips">>, <<"#ParentingSupport">>, <<"#YouGotThis">> >>,
     visual_prompts |-> <<"Simple, calming illustration">>,
     psychology_concept |-> "general support",
     magical_element |-> "gentle encouragement", target_age |-> "all",
     created_at |-> gcalls]

FallbackVideoFiveSlides(theme, topic) ==
    [source |-> "fallback", theme |-> theme, content_type |-> "video",
     title |-> <<"Quick Video: ", topic>>, slides |-> 5,
     caption |-> <<"Quick thoughts on ", topic, ". What's your experience?">>,
     hashtags |-> << <<"#ParentingVideo">>, <<"#QuickTips">>, <<"#ParentingSupport">> >>,
     visual_prompts |-> <<"Simple talking head with text overlay">>,
     psychology_concept |-> "general support",
     magical_element |-> "encouraging tone", target_age |-> "all",
     created_at |-> gcalls]
\* _generate_fallback_video(theme, topic)
FallbackVideo(theme, topic) ==
    [source |-> "fallback", theme |-> theme, content_type |-> "video",
     title |-> <<"Quick Video: ", topic>>, slides |-> 4,
     caption |-> <<"Quick thoughts on ", topic, ". What's your experience?">>,
     hashtags |-> << <<"#ParentingVideo">>, <<"#QuickTips">>, <<"#ParentingSupport">> >>,
     visual_prompts |-> <<"Simple talking head with text overlay">>,
     psychology_concept |-> "general support",
     magical_element |-> "encouraging tone", target_age |-> "all",
     created_at |-> gcalls]

\* the fallback each operation's handler returns
FallbackFor(kind, theme, topic) ==
    IF kind = "carousel" THEN FallbackContent(theme, topic)
    ELSE FallbackVideo(theme, topic)

\* what _generate_visual_prompts returns: the backend's prompts, or the five
\* fixed prompts (the first names the motif) when its call or parse raised
VisualPrompts(outcome, motif) ==
    IF outcome = "ok" THEN <<"prompts of the backend">>
    ELSE <<"Whimsical illustration of ", motif, "Magical parent-child moment",
           "Enchanted forest scene", "Fairy tale inspired parenting scene",
           "Magical family bonding moment">>

\* what _generate_caption / _generate_video_caption returns: the backend's
\* text, or the fixed sentence about the topic when its call raised
Caption(kind, outcome, topic) ==
    IF outcome = "ok" THEN <<"caption of the backend">>
    ELSE IF kind = "carousel" THEN <<"Magical parenting wisdom for ", topic>>
    ELSE <<"Quick magical parenting tip for ", topic>>

BuiltPieceOnlyIfAllOk(kind, theme, prim, steps) ==
    IF \E i \in 1 .. Len(steps) : steps[i] = "raises"
    THEN FallbackFor(kind, theme, prim.topic)
    ELSE [source |-> "backend", theme |-> theme, content_type |-> kind,
          title |-> <<"title of ", prim.topic>>, slides |-> prim.slides,
          caption |-> Caption(kind, "ok", prim.topic),
          hashtags |-> GenerateHashtags(prim.topic, theme, kind = "video"),
          visual_prompts |-> IF kind = "carousel"
                             THEN VisualPrompts("ok", prim.motif)
                             ELSE <<"scene_descriptions of the backend">>,
          psychology_concept |-> prim.concept,
          magical_element |-> prim.motif, target_age |-> "3-10",
          created_at |-> gcalls]
\* the ContentPiece(...) built from the backend's response and the results of
\* the secondary calls (steps: visual prompts and caption for a carousel, caption
\* for a video)
BuiltPiece(kind, theme, prim, steps) ==
    [source |-> "backend", theme |-> theme, content_type |-> kind,
     title |-> <<"title of ", prim.topic>>, slides |-> prim.slides,
     caption |-> Caption(kind, steps[Len(steps)], prim.topic),
     hashtags |-> GenerateHashtags(prim.topic, theme, kind = "video"),
     visual_prompts |-> IF kind = "carousel"
                        THEN VisualPrompts(steps[1], prim.motif)
                        ELSE <<"scene_descriptions of the backend">>,
     psychology_concept |-> prim.concept,
     magical_element |-> prim.motif, target_age |-> "3-10",
     created_at |-> gcalls]

GenInit(K, Th, Tp) ==
    /\ gkind \in K
    /\ gtheme \in Th
    /\ gtopic \in Tp
    /\ gpc = "start"
    /\ gprimary = NoPrimary
    /\ gsteps = <<>>
    /\ piece = NoPiece
    /\ graised = FALSE
    /\ gcalls = 1
    /\ fallbacks = {}

\* An exception reaches the operation's except clause: the fallback piece is
\* returned if the clause catches it, otherwise it leaves the operation.
GenHandle(exc, prim) ==
    /\ gpc' = "done"
    /\ IF HandlerCatches(exc)
       THEN /\ piece' = FallbackFor(gkind, gtheme, prim.topic)
            /\ graised' = FALSE
            /\ fallbacks' = fallbacks \cup
                   {[topic |-> prim.topic, concept |-> prim.concept,
                     motif |-> prim.motif, piece |-> piece']}
       ELSE /\ piece' = NoPiece
            /\ graised' = TRUE
            /\ UNCHANGED fallbacks

\* The draws of topic, concept and motif, then
\* response = await self._call_openai(prompt); data = json.loads(response).
GenPrimary ==
    /\ gpc = "start"
    /\ \E topic \in (IF gtopic = NoTopic THEN TrendingTopics ELSE {gtopic}) :
       \E concept \in PsychologyConcepts : \E motif \in MagicalElements :
       \E out \in PrimaryOutcomes : \E n \in 0 .. MaxRespSlides :
         /\ (out # "object" => n = 0)
         /\ (out = "bad_slides" => gkind = "carousel")
         /\ gprimary' = [out |-> out, slides |-> n, topic |-> topic,
                         concept |-> concept, motif |-> motif]
         /\ IF PrimaryExc(out) # NoExc
            THEN GenHandle(PrimaryExc(out), gprimary')
            ELSE /\ gpc' = IF gkind = "carousel" THEN "visual" ELSE "caption"
                 /\ UNCHANGED <<piece, graised, fallbacks>>
    /\ gsteps' = <<>>
    /\ UNCHANGED <<gkind, gtheme, gtopic, gcalls>>
    /\ UNCHANGED <<retryVars, windowVars, callerVars, pubVars, calVars, weekVars, campVars, schedVars, engVars, callVars>>

\* visual_prompts = await self._generate_visual_prompts(content_data, magical_element):
\* content_data.get(...) in the prompt is outside its try; the call and the parse
\* are inside, with the five fixed prompts as the except result.
GenVisual ==
    /\ gpc = "visual"
    /\ IF gprimary.out = "not_object"
       THEN /\ GenHandle("AttributeError", gprimary)
            /\ UNCHANGED gsteps
       ELSE /\ \E o \in SubOutcomes : gsteps' = Append(gsteps, o)
            /\ gpc' = "caption"
            /\ UNCHANGED <<piece, graised, fallbacks>>
    /\ UNCHANGED <<gkind, gtheme, gtopic, gprimary, gcalls>>
    /\ UNCHANGED <<retryVars, windowVars, callerVars, pubVars, calVars, weekVars, campVars, schedVars, engVars, callVars>>

\* caption = await self._generate_caption(...) / _generate_video_caption(...),
\* hashtags = await self._generate_hashtags(...), and return ContentPiece(...),
\* whose engagement_hooks=self._extract_hooks(content_data) reads slides[0].
GenCaption ==
    /\ gpc = "caption"
    /\ IF gprimary.out = "not_object"
       THEN /\ GenHandle("AttributeError", gprimary)
            /\ UNCHANGED gsteps
       ELSE /\ \E o \in SubOutcomes : gsteps' = Append(gsteps, o)
            /\ IF gprimary.out = "bad_slides"
               THEN GenHandle("KeyError", gprimary)
               ELSE /\ gpc' = "done"
                    /\ piece' = BuiltPiece(gkind, gtheme, gprimary, gsteps')
                    /\ UNCHANGED <<graised, fallbacks>>
    /\ UNCHANGED <<gkind, gtheme, gtopic, gprimary, gcalls>>
    /\ UNCHANGED <<retryVars, windowVars, callerVars, pubVars, calVars, weekVars, campVars, schedVars, engVars, callVars>>

\* The caller calls the same operation again with the same arguments.
GenAgain ==
    /\ gpc = "done"
    /\ ~graised
    /\ gcalls < MaxGenCalls
    /\ gcalls' = gcalls + 1
    /\ gpc' = "start"
    /\ gprimary' = NoPrimary
    /\ gsteps' = <<>>
    /\ piece' = NoPiece
    /\ UNCHANGED <<gkind, gtheme, gtopic, graised, fallbacks>>
    /\ UNCHANGED <<retryVars, windowVars, callerVars, pubVars, calVars, weekVars, campVars, schedVars, engVars, callVars>>

GenNext == GenPrimary \/ GenVisual \/ GenCaption \/ GenAgain

-----------------------------------------------------------------------------
(* MagicalParentingContentEngine.get_daily_theme *)

\* Dates are proleptic Gregorian ordinals (date.toordinal()): day 1 is Monday
\* 0001-01-01.
WeekdaySundayFirst(d) == d % 7
\* datetime.weekday(): Monday is 0, Sunday is 6
Weekday(d) == (d + 6) % 7

\* themes = list(DayTheme); return themes[weekday]
DailyTheme(d) == Weekday(d) + 1

\* the day a run starts on: 0001-01-22 is a Monday
FirstStartDay == 22
StartDays == FirstStartDay .. FirstStartDay + 6

CalInit(D) ==
    /\ today \in D
    /\ themeLog = <<>>

\* get_daily_theme() is called, at most once on a day.
GetDailyTheme ==
    /\ \A i \in 1 .. Len(themeLog) : themeLog[i].date # today
    /\ themeLog' = Append(themeLog, [date |-> today, theme |-> DailyTheme(today)])
    /\ UNCHANGED today
    /\ UNCHANGED <<retryVars, windowVars, callerVars, pubVars, genVars, weekVars, campVars, schedVars, engVars, callVars>>

\* Midnight passes.
NextDay ==
    /\ today < FirstStartDay + 6 + MaxDays
    /\ today' = today + 1
    /\ UNCHANGED themeLog
    /\ UNCHANGED <<retryVars, windowVars, callerVars, pubVars, genVars, weekVars, campVars, schedVars, engVars, callVars>>

CalNext == GetDailyTheme \/ NextDay

-----------------------------------------------------------------------------
(* MagicalParentingContentEngine.generate_weekly_content *)

\* the draws a generation of the weekly batch makes
WeeklyDraw == [topic |-> "toddler tantrums", concept |-> "attachment theory",
               motif |-> "wizard patience"]

\* what `await self.generate_carousel_content(theme)` / generate_video_content(theme)
\* returns at time now: the piece built from a backend response of the size the
\* prompt demands, or the fallback piece when the backend fails
Generated(kind, theme, failed, now) ==
    LET prim == [out |-> "object", slides |-> IF kind = "carousel" THEN 5 ELSE 4,
                 topic |-> WeeklyDraw.topic, concept |-> WeeklyDraw.concept,
                 motif |-> WeeklyDraw.motif]
        p == IF failed THEN FallbackFor(kind, theme, WeeklyDraw.topic)
             ELSE BuiltPiece(kind, theme, prim,
                             IF kind = "carousel" THEN <<"ok", "ok">> ELSE <<"ok">>)
    IN [p EXCEPT !.created_at = now]

VideoDaysAll == 0 .. 6
\* if day_num in [0, 2, 4]:
VideoDays == {0, 2, 4}

\* weekly_content[key] = value
DictSet(d, key, value) ==
    [k \in DOMAIN d \cup {key} |-> IF k = key THEN value ELSE d[k]]

\* date.strftime("%Y-%m-%d") for the days of January and February of year 1:
\* <<year, month, day of month>>
DateKey(d) == IF d <= 31 THEN <<1, 1, d>> ELSE <<1, 2, d - 31>>

WeekInit(D) ==
    /\ wnow \in D
    /\ day_num = 0
    /\ wpc = "next"
    /\ date = 0
    /\ content_pieces = <<>>
    /\ weekly_content = << >>
    /\ wevents = <<>>
    /\ wfailed = 0
    /\ wrolled = 0

\* Midnight passes while a generation is awaited.
Midnight ==
    /\ wpc \in {"carousel", "video"}
    /\ wrolled < MaxRollovers
    /\ wrolled' = wrolled + 1
    /\ wnow' = wnow + 1
    /\ UNCHANGED <<day_num, wpc, date, content_pieces, weekly_content, wevents, wfailed>>
    /\ UNCHANGED <<retryVars, windowVars, callerVars, pubVars, genVars, calVars, campVars, schedVars, engVars, callVars>>

\* The top of the loop body: date = datetime.now() + timedelta(days=day_num),
\* and generate_carousel_content(theme) is called.
WeeklyIterate ==
    /\ wpc = "next"
    /\ day_num < 7
    /\ date' = wnow + day_num
    /\ wpc' = "carousel"
    /\ wevents' = Append(wevents, <<"start", day_num, "carousel">>)
    /\ UNCHANGED <<wnow, day_num, content_pieces, weekly_content, wfailed, wrolled>>
    /\ UNCHANGED <<retryVars, windowVars, callerVars, pubVars, genVars, calVars, campVars, schedVars, engVars, callVars>>

\* the end of the loop body: weekly_content[date.strftime("%Y-%m-%d")] = content_pieces
Stored(pieces) == DictSet(weekly_content, DateKey(date), pieces)

\* The carousel generation returns: content_pieces = [carousel]; on a video day
\* generate_video_content(theme) is called, otherwise the day's list is stored.
WeeklyCarousel ==
    /\ wpc = "carousel"
    /\ \E failed \in BOOLEAN :
         /\ failed => wfailed < MaxFailures
         /\ wfailed' = IF failed THEN wfailed + 1 ELSE wfailed
         /\ content_pieces' = <<Generated("carousel", day_num + 1, failed, wnow)>>
    /\ IF day_num \in VideoDays
       THEN /\ wpc' = "video"
            /\ wevents' = wevents \o << <<"return", day_num, "carousel">>,
                                        <<"start", day_num, "video">> >>
            /\ UNCHANGED <<weekly_content, day_num>>
       ELSE /\ wpc' = "next"
            /\ wevents' = Append(wevents, <<"return", day_num, "carousel">>)
            /\ weekly_content' = Stored(content_pieces')
            /\ day_num' = day_num + 1
    /\ UNCHANGED <<wnow, date, wrolled>>
    /\ UNCHANGED <<retryVars, windowVars, callerVars, pubVars, genVars, calVars, campVars, schedVars, engVars, callVars>>

\* The video generation returns: content_pieces.append(video) and the day's
\* list is stored.
WeeklyVideo ==
    /\ wpc = "video"
    /\ \E failed \in BOOLEAN :
         /\ failed => wfailed < MaxFailures
         /\ wfailed' = IF failed THEN wfailed + 1 ELSE wfailed
         /\ content_pieces' = Append(content_pieces,
                                     Generated("video", day_num + 1, failed, wnow))
    /\ wpc' = "next"
    /\ wevents' = Append(wevents, <<"return", day_num, "video">>)
    /\ weekly_content' = Stored(content_pieces')
    /\ day_num' = day_num + 1
    /\ UNCHANGED <<wnow, date, wrolled>>
    /\ UNCHANGED <<retryVars, windowVars, callerVars, pubVars, genVars, calVars, campVars, schedVars, engVars, callVars>>

\* The loop is exhausted: return weekly_content.
WeeklyReturn ==
    /\ wpc = "next"
    /\ day_num = 7
    /\ wpc' = "done"
    /\ UNCHANGED <<wnow, day_num, date, content_pieces, weekly_content, wevents,
                   wfailed, wrolled>>
    /\ UNCHANGED <<retryVars, windowVars, callerVars, pubVars, genVars, calVars, campVars, schedVars, engVars, callVars>>

WeekNext == Midnight \/ WeeklyIterate \/ WeeklyCarousel \/ WeeklyVideo \/ WeeklyReturn

-----------------------------------------------------------------------------
(* MagicalParentingContentEngine.generate_bot_teaser_campaign *)

TeaserTopicsReversed ==
    <<"Sneak peek: AI that creates personalized fairy tales",
      "The psychology behind interactive storytelling",
      "What if bedtime stories adapted to your child's choices?",
      "Behind the scenes: Building magical stories for your kids">>
\* teaser_topics
TeaserTopics ==
    <<"Behind the scenes: Building magical stories for your kids",
      "What if bedtime stories adapted to your child's choices?",
      "The psychology behind interactive storytelling",
      "Sneak peek: AI that creates personalized fairy tales">>

\* DayTheme.STORY_SATURDAY, by position in list(DayTheme)
StorySaturday == 6

\* what one generate_carousel_content call of the campaign meets: the primary
\* call fails, or it answers and each of the two secondary calls works or raises
CampaignOutcomes == {<<"api_error">>} \cup
                    {<<"object", v, c>> : v \in SubOutcomes, c \in SubOutcomes}

\* what `await self.generate_carousel_content(DayTheme.STORY_SATURDAY, topic)`
\* returns at time now
CampaignPiece(topic, outcome, now) ==
    LET prim == [out |-> "object", slides |-> 5, topic |-> topic,
                 concept |-> WeeklyDraw.concept, motif |-> WeeklyDraw.motif]
        p == IF outcome[1] = "api_error"
             THEN FallbackFor("carousel", StorySaturday, topic)
             ELSE BuiltPiece("carousel", StorySaturday, prim,
                             <<outcome[2], outcome[3]>>)
    IN [p EXCEPT !.created_at = now]

CampInit ==
    /\ cidx = 0
    /\ cpc = "next"
    /\ campaign_content = <<>>
    /\ cevents = <<>>

\* The loop takes the next topic and calls generate_carousel_content.
CampaignIterate ==
    /\ cpc = "next"
    /\ cidx < Len(TeaserTopics)
    /\ cpc' = "generating"
    /\ cevents' = Append(cevents, <<"start", cidx + 1>>)
    /\ UNCHANGED <<cidx, campaign_content>>
    /\ UNCHANGED <<retryVars, windowVars, callerVars, pubVars, genVars, calVars, weekVars, schedVars, engVars, callVars>>

\* The generation returns: campaign_content.append(content).
CampaignGenerated ==
    /\ cpc = "generating"
    /\ \E outcome \in CampaignOutcomes :
         /\ campaign_content' =
               Append(campaign_content,
                      CampaignPiece(TeaserTopics[cidx + 1], outcome, cidx + 1))
         /\ cevents' = Append(cevents, <<"return", cidx + 1, outcome[1]>>)
    /\ cidx' = cidx + 1
    /\ cpc' = "next"
    /\ UNCHANGED <<retryVars, windowVars, callerVars, pubVars, genVars, calVars, weekVars, schedVars, engVars, callVars>>

\* The topics are exhausted: return campaign_content.
CampaignReturn ==
    /\ cpc = "next"
    /\ cidx = Len(TeaserTopics)
    /\ cpc' = "done"
    /\ UNCHANGED <<cidx, campaign_content, cevents>>
    /\ UNCHANGED <<retryVars, windowVars, callerVars, pubVars, genVars, calVars, weekVars, schedVars, engVars, callVars>>

CampNext == CampaignIterate \/ CampaignGenerated \/ CampaignReturn

-----------------------------------------------------------------------------
(* InstagramPublisher._estimate_engagement *)

\* high_engagement_concepts and engaging_magical_elements
HighEngagementConcepts == {"emotional regulation", "positive reinforcement",
                           "growth mindset", "empathy development"}
EngagingMagicalElements == {"fairy tale lessons", "dragon courage", "unicorn compassion",
                            "enchanted forest wisdom"}
\* content.theme.value in ["story_saturday", "serene_sunday"], by position
WeekendThemes == {6, 7}

EngagementRateElif(concept, motif, kind, theme) ==
    LET a == 500 + (IF concept \in HighEngagementConcepts THEN 200 ELSE 0)
        b == IF kind = "video" THEN a + 300
             ELSE a + (IF motif \in EngagingMagicalElements THEN 150 ELSE 0)
    IN b + (IF theme \in WeekendThemes THEN 100 ELSE 0)
EngagementRateCompounding(concept, motif, kind, theme) ==
    LET a == 500 + (IF concept \in HighEngagementConcepts THEN 200 ELSE 0)
        b == a + (IF motif \in EngagingMagicalElements THEN 150 ELSE 0)
        c == b + (IF kind = "video" THEN 300 ELSE 0)
    IN c + (IF theme \in WeekendThemes THEN (c \div 5) ELSE 0)
\* base_engagement after the four tests, in hundredths of a percent (0.05 is
\* 500): the four `if` statements in the order of the code. The double sums
\* round to these values under round(base_engagement * 100, 2).
EngagementRate(concept, motif, kind, theme) ==
    LET a == 500 + (IF concept \in HighEngagementConcepts THEN 200 ELSE 0)
        b == a + (IF motif \in EngagingMagicalElements THEN 150 ELSE 0)
        c == b + (IF kind = "video" THEN 300 ELSE 0)
    IN c + (IF theme \in WeekendThemes THEN 100 ELSE 0)

\* the bounds of random.randint(500, 2000)
MinReach == 500
MaxReach == 2000

\* int(estimated_reach * base_engagement): the double product truncates to the
\* exact quotient for every reach and rate above
EngagementCount(reach, rate) == (reach * rate) \div 10000

\* the counts up to 250 for which the double product c * 0.7 lies just below
\* the integer 7c/10, so that int() gives one less
ShortOfSevenTenths == {90, 170, 180}

TimesPoint8(c) == (c * 8) \div 10
\* int(estimated_engagement_count * 0.7)
TimesPoint7(c) == IF c \in ShortOfSevenTenths THEN ((c * 7) \div 10) - 1
                  ELSE (c * 7) \div 10
\* int(estimated_engagement_count * 0.2), int(estimated_engagement_count * 0.1)
TimesPoint2(c) == (c * 2) \div 10
TimesPoint1(c) == c \div 10

NoEstimate == [estimated_reach |-> 0]

\* the dict _estimate_engagement returns for a piece, reach being the value
\* random.randint(500, 2000) gave
Estimate(concept, motif, kind, theme, reach) ==
    LET rate == EngagementRate(concept, motif, kind, theme)
        count == EngagementCount(reach, rate)
    IN [estimated_reach |-> reach,
        estimated_engagement_rate |-> rate,
        estimated_likes |-> TimesPoint7(count),
        estimated_comments |-> TimesPoint2(count),
        estimated_saves |-> TimesPoint1(count)]

EngInit ==
    /\ econcept \in PsychologyConcepts \cup {"general support"}
    /\ emotif \in MagicalElements
    /\ ekind \in Kinds
    /\ etheme \in Themes
    /\ estimate = NoEstimate

\* _estimate_engagement(content)
EstimateEngagement ==
    /\ estimate = NoEstimate
    /\ \E reach \in MinReach .. MaxReach :
         estimate' = Estimate(econcept, emotif, ekind, etheme, reach)
    /\ UNCHANGED <<econcept, emotif, ekind, etheme>>
    /\ UNCHANGED <<retryVars, windowVars, callerVars, pubVars, genVars, calVars, weekVars, campVars, schedVars, callVars>>

EngNext == EstimateEngagement

-----------------------------------------------------------------------------
(* InstagramPublisher.schedule_content and _calculate_optimal_time *)

BaseHourNoRecompute(i) == 9 + (i * 3)
\* base_hour = 9 + (post_index * 3); if base_hour > 21: base_hour = 9 + (post_index * 2)
BaseHour(i) == IF 9 + (i * 3) > 21 THEN 9 + (i * 2) ELSE 9 + (i * 3)

\* start_date.replace(hour=h, ...) raises ValueError unless h is in 0..23
ReplaceRaises(h) == h < 0 \/ h > 23

\* values of random.randint(-15, 15) the model draws
Jitters == {-15, 0, 15}

\* post_time: start_date with the time of day replaced by base_hour:00, plus
\* the jitter in minutes; returned as date, hour and minute
PostTime(day, h, jitter) ==
    LET m == h * 60 + jitter
    IN [date |-> day, hour |-> m \div 60, minute |-> m % 60]

\* the two random draws of one round of the loop (the jitter of
\* _calculate_optimal_time, the reach of _estimate_engagement), as the model
\* samples them
ScheduleDraws == {[jitter |-> j, reach |-> MinReach] : j \in Jitters}
                 \cup {[jitter |-> 0, reach |-> MaxReach]}

\* content_pieces[i] of the batch given to schedule_content: carousels and
\* videos in turn, every second pair with a concept, motif and theme that
\* _estimate_engagement rewards
BatchPiece(i) ==
    [id |-> i,
     content_type |-> IF i % 2 = 0 THEN "carousel" ELSE "video",
     psychology_concept |-> IF i % 4 < 2 THEN "growth mindset" ELSE "attachment theory",
     magical_element |-> IF i % 4 < 2 THEN "dragon courage" ELSE "wizard patience",
     theme |-> (i % 7) + 1]

SchedInit ==
    /\ batch \in 0 .. MaxBatch
    /\ sidx = 0
    /\ spc = "loop"
    /\ scheduled_posts = <<>>

\* One round of the loop of schedule_content: _calculate_optimal_time(start_date, i)
\* and the append of the scheduled post; a ValueError of replace() leaves the
\* operation, which has no handler.
SchedulePost ==
    /\ spc = "loop"
    /\ sidx < batch
    /\ IF ReplaceRaises(BaseHour(sidx))
       THEN /\ spc' = "raised"
            /\ UNCHANGED <<sidx, scheduled_posts>>
       ELSE /\ \E dr \in ScheduleDraws :
                 LET content == BatchPiece(sidx) IN
                 scheduled_posts' =
                     Append(scheduled_posts,
                            [index |-> sidx, base_hour |-> BaseHour(sidx),
                             jitter |-> dr.jitter,
                             content |-> content,
                             scheduled_time |-> PostTime(FirstStartDay, BaseHour(sidx),
                                                         dr.jitter),
                             status |-> "scheduled",
                             estimated_engagement |->
                                 Estimate(content.psychology_concept,
                                          content.magical_element, content.content_type,
                                          content.theme, dr.reach)])
            /\ sidx' = sidx + 1
            /\ UNCHANGED spc
    /\ UNCHANGED batch
    /\ UNCHANGED <<retryVars, windowVars, callerVars, pubVars, genVars, calVars, weekVars, campVars, engVars, callVars>>

\* The loop is exhausted: return scheduled_posts.
ScheduleReturn ==
    /\ spc = "loop"
    /\ sidx = batch
    /\ spc' = "done"
    /\ UNCHANGED <<batch, sidx, scheduled_posts>>
    /\ UNCHANGED <<retryVars, windowVars, callerVars, pubVars, genVars, calVars, weekVars, campVars, engVars, callVars>>

SchedNext == SchedulePost \/ ScheduleReturn

-----------------------------------------------------------------------------
(* The specifications *)

RetryParked == RetryInit({"generate_daily_content"})
GenParked == GenInit({"carousel"}, {1}, {NoTopic})
CalParked == CalInit({FirstStartDay})
WeekParked == WeekInit({FirstStartDay})
SchedParked == batch = 0 /\ sidx = 0 /\ spc = "loop" /\ scheduled_posts = <<>>
EngParked ==
    /\ econcept = "general support"
    /\ emotif = "wizard patience"
    /\ ekind = "carousel"
    /\ etheme = 1
    /\ estimate = NoEstimate
OthersParked == CampInit /\ SchedParked /\ EngParked
CallParked == content_id = "none" /\ platform = "none" /\ publishesAccepted = 0

\* the Celery tasks and their retry branches
InitRetry == RetryInit(Tasks) /\ WindowInit /\ CallerInit /\ CallParked /\ PubInit /\ GenParked
             /\ CalParked /\ WeekParked /\ OthersParked
NextRetry == RetryNext
SpecRetry == InitRetry /\ [][NextRetry]_vars

\* _check_rate_limit under concurrent callers
InitRate == RetryParked /\ WindowInit /\ CallerInit /\ CallParked /\ PubInit /\ GenParked
            /\ CalParked /\ WeekParked /\ OthersParked
NextRate == RateNext
SpecRate == InitRate /\ [][NextRate]_vars

\* publish operations on one publisher
InitPublish == RetryParked /\ WindowInit /\ CallerInit /\ CallParked /\ PubInit /\ GenParked
               /\ CalParked /\ WeekParked /\ OthersParked
NextPublish == PubNext
SpecPublish == InitPublish /\ [][NextPublish]_vars

\* single-piece generation
InitGen == RetryParked /\ WindowInit /\ CallerInit /\ CallParked /\ PubInit
           /\ GenInit(Kinds, Themes, Topics \cup {NoTopic})
           /\ CalParked /\ WeekParked /\ OthersParked
NextGen == GenNext
SpecGen == InitGen /\ [][NextGen]_vars

\* get_daily_theme on consecutive days
InitCalendar == RetryParked /\ WindowInit /\ CallerInit /\ CallParked /\ PubInit /\ GenParked
                /\ CalInit(StartDays) /\ WeekParked /\ OthersParked
NextCalendar == CalNext
SpecCalendar == InitCalendar /\ [][NextCalendar]_vars

\* one weekly batch
InitWeekly == RetryParked /\ WindowInit /\ CallerInit /\ CallParked /\ PubInit /\ GenParked
              /\ CalParked /\ WeekInit(StartDays) /\ OthersParked
NextWeekly == WeekNext
SpecWeekly == InitWeekly /\ [][NextWeekly]_vars

\* one campaign batch
InitCampaign == RetryParked /\ WindowInit /\ CallerInit /\ CallParked /\ PubInit /\ GenParked
                /\ CalParked /\ WeekParked /\ CampInit /\ SchedParked /\ EngParked
NextCampaign == CampNext
SpecCampaign == InitCampaign /\ [][NextCampaign]_vars

\* one schedule_content call
InitSchedule == RetryParked /\ WindowInit /\ CallerInit /\ CallParked /\ PubInit /\ GenParked
                /\ CalParked /\ WeekParked /\ CampInit /\ SchedInit /\ EngParked
NextSchedule == SchedNext
SpecSchedule == InitSchedule /\ [][NextSchedule]_vars

\* one _estimate_engagement call
InitEngagement == RetryParked /\ WindowInit /\ CallerInit /\ CallParked /\ PubInit /\ GenParked
                  /\ CalParked /\ WeekParked /\ CampInit /\ SchedParked /\ EngInit
NextEngagement == EngNext
SpecEngagement == InitEngagement /\ [][NextEngagement]_vars

\* the tasks under a worker that executes every task message it holds and a
\* queue that delivers a retried task again when its countdown has run out
FairRetry == WF_vars(Start) /\ WF_vars(Execute) /\ WF_vars(Redeliver)
SpecRetryLive == InitRetry /\ [][NextRetry]_vars /\ FairRetry

\* the publishing operations under a scheduler that lets time pass and resumes
\* a coroutine whose asyncio.sleep is due: the event loop runs a timer callback
\* once its deadline has passed, and nothing else is runnable while the only
\* operation sleeps
FairPublish == WF_vars(Tick) /\ WF_vars(PWake)
\* the operations, called with no image or one image and no slide text
NextPublishLive ==
    \/ Tick
    \/ \E n \in {0, 1} : Begin("carousel", n, 0)
    \/ Begin("video", 1, 0)
    \/ PWake
    \/ CreateMedia
    \/ PublishCarousel
    \/ CreateVideoMedia
    \/ PublishVideo
SpecPublishLive == InitPublish /\ [][NextPublishLive]_vars /\ FairPublish

\* a batch of one or two pieces is scheduled and the publishing operations
\* are called on the same publisher, in any order
InitSchedulePublish ==
    /\ RetryParked /\ WindowInit /\ CallerInit /\ CallParked /\ PubInit /\ GenParked
    /\ CalParked /\ WeekParked /\ CampInit /\ EngParked
    /\ batch \in {1, 2}
    /\ sidx = 0
    /\ spc = "loop"
    /\ scheduled_posts = <<>>
NextSchedulePublish == SchedNext \/ NextPublishLive
SpecSchedulePublish == InitSchedulePublish /\ [][NextSchedulePublish]_vars

\* publish_scheduled_content, its retries and the window of its publishers
InitTaskPublish == RetryInit({"publish_scheduled_content"}) /\ WindowInit /\ CallerInit
                   /\ TaskCallInit /\ GenParked /\ CalParked /\ WeekParked /\ OthersParked
NextTaskPublish == TaskPublishNext
SpecTaskPublish == InitTaskPublish /\ [][NextTaskPublish]_vars

Init == InitRetry
Next == NextRetry
Spec == SpecRetry


-----------------------------------------------------------------------------
(* Claims about the retry branches (SpecRetry) *)

IsPrefix(s, t) == Len(s) <= Len(t) /\ \A i \in 1 .. Len(s) : s[i] = t[i]
AllRaised == \A i \in 1 .. Len(excLog) : excLog[i] # NoExc
LastExc == excLog[Len(excLog)]

TraceTwoRetries == <<"Pending", "Running", "Retrying", "Running", "Retrying",
                     "Running", "Failed">>
TraceThreeRetries == <<"Pending", "Running", "Retrying", "Running", "Retrying",
                       "Running", "Retrying", "Running", "Failed">>

\* C1 as stated: a task whose every attempt raises is retried exactly twice
\* (three executions) before it reaches Failed, and the exception propagated
\* at Failed is the one the last attempt raised.
C1_FailedAfterTwoRetries ==
    tstate = "Failed" =>
        /\ trace = TraceTwoRetries
        /\ executions = 3
        /\ propagated = LastExc

\* C1 as amended: a task whose every attempt raises is retried exactly three
\* times (four executions), Pending -> Running -> (Retrying -> Running) x 3 ->
\* Failed, and the exception propagated at Failed is the one the last attempt raised.
C1_FailedAfterThreeRetries ==
    /\ AllRaised /\ tstate # "Failed" => IsPrefix(trace, TraceThreeRetries)
    /\ tstate = "Failed" =>
        /\ AllRaised
        /\ trace = TraceThreeRetries
        /\ executions = 4
        /\ Len(delays) = 3
        /\ propagated = LastExc

C1_Witness ==
    /\ task = "publish_scheduled_content"
    /\ tstate = "Failed"
    /\ Len(excLog) = 4
    /\ excLog[4] = "Exception: Publishing failed"
    /\ excLog[3] = "Exception: Media creation failed"

\* C7: once a cancellation signal has arrived during the backoff delay, the
\* operation is in a cancelled terminal state and executes no further attempt.
C7_CancelStopsRetrying ==
    cancelled => /\ executions = execAtCancel
                 /\ tstate \notin {"Running", "Success", "Failed"}

\* the delays each task may request, in order
ExpectedDelays(t) ==
    CASE t = "generate_daily_content" -> <<60, 120, 240>>
      [] t = "generate_weekly_content" -> <<300, 600, 1200>>
      [] t = "generate_bot_teaser_campaign" -> <<600, 1200, 2400>>
      [] t = "publish_scheduled_content" -> <<300, 600, 1200>>

\* C8: the delay requested after a retries is base * 2^a with base 60 (daily),
\* 300 (weekly), 600 (campaign), 300 (publish); each delay of one operation is
\* double the one before.
C8_BackoffDoubles ==
    /\ IsPrefix(delays, ExpectedDelays(task))
    /\ \A i \in 2 .. Len(delays) : delays[i] = 2 * delays[i - 1]

C8_Witness ==
    /\ task = "generate_bot_teaser_campaign"
    /\ delays = <<600, 1200, 2400>>

\* C9: an exception raised while Running schedules a re-attempt exactly when
\* the retry count is below 3; at 3 no re-attempt is scheduled, the task moves to
\* Failed and re-raises that exception; an exception never becomes Success.
C9_RetryIffBelowMax ==
    [][(tstate = "Running" /\ tstate' # "Running" /\ excLog'[Len(excLog')] # NoExc) =>
          /\ (tstate' = "Retrying") <=> (retries < 3)
          /\ tstate' = "Retrying" => Len(delays') = Len(delays) + 1
          /\ retries = 3 => /\ tstate' = "Failed"
                            /\ delays' = delays
                            /\ propagated' = excLog'[Len(excLog')]
          /\ tstate' # "Success"]_vars

C9_Witness ==
    /\ tstate = "Failed"
    /\ retries = 3
    /\ task = "generate_weekly_content"
    /\ propagated = "ValueError: OpenAI API key is required"

-----------------------------------------------------------------------------
(* Claims about the rate limiter (SpecRate) *)

\* C2: counting from the start of a window, the first rate_limit calls return
\* without suspending, and call number rate_limit + 1 made less than 3600 s
\* after the window start suspends and returns no earlier than window start + 3600.
C2_LimitThenSuspend ==
    \A p \in Callers :
        callIdx[p] > 0 =>
            /\ callIdx[p] <= rate_limit =>
                   ~callSuspended[p] /\ callReturned[p] = callWinStart[p] + callElapsed[p]
            /\ (callIdx[p] = rate_limit + 1 /\ callElapsed[p] < 3600) =>
                   /\ callSuspended[p]
                   /\ callReturned[p] >= 0 => callReturned[p] >= callWinStart[p] + 3600

C2_Witness ==
    \E p \in Callers :
        /\ callIdx[p] = rate_limit + 1
        /\ callElapsed[p] < 3600
        /\ callSuspended[p]
        /\ callReturned[p] >= callWinStart[p] + 3600

\* C3: access to the (request_count, last_request_time) pair is serialized: no
\* two callers observe the same value of the pair and both proceed on it.
C3_NoTwoProceedOnOneObservation == ~dupProceed

\* two callers that found the window full at the same value of the pair have
\* both slept and both returned
C3_BothSleepersProceeded ==
    /\ dupProceed
    /\ \A p \in {1, 2} : callSuspended[p] /\ callReturned[p] >= 0 /\ cstate[p] = "idle"
    /\ obsVer[1] = obsVer[2]
    /\ request_count = 1

-----------------------------------------------------------------------------
(* Claims about publish_carousel and publish_video (SpecPublish) *)

NoPublishCall == \A j \in 1 .. Len(opLog) : opLog[j].kind # "media_publish"

\* C4: in publish_carousel a media-creation request answered with a non-200
\* status is the last request of the invocation: no further media creation and
\* no media_publish follow, and the result is the media-creation error, never
\* a published result.
C4_CarouselAbortsOnCreateFailure ==
    op = "carousel" =>
        \A k \in 1 .. Len(opLog) :
            (opLog[k].kind = "media" /\ opLog[k].resp = "400") =>
                /\ k = Len(opLog)
                /\ NoPublishCall
                /\ ppc = "done"
                /\ result.status = "error"
                /\ result.error = "Media creation failed"

C4_Witness ==
    /\ op = "carousel"
    /\ nUrls = 3
    /\ Len(opLog) = 2
    /\ opLog[1].resp = "200"
    /\ opLog[2].resp = "400"
    /\ ppc = "done"

\* C6: every outbound HTTP request is gated on its own: the requests sent in a
\* window never outnumber the increments of request_count in that window, nor
\* the configured limit.
C6_EveryRequestGated ==
    /\ sentInWindow <= request_count
    /\ sentInWindow <= rate_limit

\* C10: in publish_video a media_publish request is the second request, follows
\* a media request answered 200 and carries the id that answer returned; a
\* failed creation is followed by no request; a failure of either step gives
\* an error result, and a published result only comes from two 200 answers.
C10_VideoPublishesCreatedMedia ==
    op = "video" =>
        /\ \A k \in 1 .. Len(opLog) :
              opLog[k].kind = "media_publish" =>
                  /\ k = 2
                  /\ opLog[1].kind = "media"
                  /\ opLog[1].resp = "200"
                  /\ opLog[k].refs = <<opLog[1].rid>>
        /\ (Len(opLog) >= 1 /\ opLog[1].resp # "200") =>
              Len(opLog) = 1 /\ ppc = "done" /\ result.status = "error"
        /\ (ppc = "done" /\ \E k \in 1 .. Len(opLog) : opLog[k].resp # "200") =>
              result.status = "error"
        /\ result.status = "published" =>
              Len(opLog) = 2 /\ opLog[1].resp = "200" /\ opLog[2].resp = "200"

C10_Witness ==
    /\ op = "video"
    /\ result.status = "published"
    /\ opLog[1].rid = 1
    /\ opLog[2].refs = <<1>>
    /\ result.id = 2

AllAnswered200 == \A j \in 1 .. Len(opLog) : opLog[j].resp = "200"
ReturnedIds(n) == [i \in 1 .. n |-> opLog[i].rid]

\* C11: in a publish_carousel invocation with N asset URLs whose every request is
\* answered 200, the requests are N media creations in asset order, the i-th
\* captioned with slide i when it exists and with the empty string otherwise,
\* then exactly one media_publish whose children are the N returned ids in
\* that order.
C11_CarouselRequestsInOrder ==
    (op = "carousel" /\ AllAnswered200) =>
        /\ Len(opLog) <= nUrls + 1
        /\ \A i \in 1 .. Len(opLog) :
              IF i <= nUrls
              THEN /\ opLog[i].kind = "media"
                   /\ opLog[i].pos = i
                   /\ opLog[i].slide = (IF i <= nSlides THEN i ELSE 0)
              ELSE /\ opLog[i].kind = "media_publish"
                   /\ opLog[i].refs = ReturnedIds(nUrls)
        /\ ppc = "done" => Len(opLog) = nUrls + 1
        /\ Len(opLog) = nUrls + 1 => ppc = "done" /\ result.status = "published"

C11_Witness ==
    /\ op = "carousel"
    /\ nUrls = 3
    /\ nSlides = 1
    /\ ppc = "done"
    /\ AllAnswered200
    /\ opLog[2].slide = 0
    /\ opLog[4].refs = <<1, 2, 3>>

\* C12: publish_carousel and publish_video return exactly one of a published
\* result (with the post id the platform returned) and an error result; a
\* non-200 answer or an exception at either phase gives the error result, and a
\* published result comes only from a media_publish answered 200 after no
\* failure.
C12_PublishedOrErrorNeverBoth ==
    /\ ppc # "done" => result = NoResult
    /\ (ppc = "done" /\ op # "none") =>
          /\ result.status \in {"published", "error"}
          /\ result.status = "error" <=> ~AllAnswered200
          /\ result.status = "published" =>
                /\ opLog[Len(opLog)].kind = "media_publish"
                /\ result.id = opLog[Len(opLog)].rid
                /\ result.error = ""
          /\ result.status = "error" => result.id = NoId /\ result.error # ""

C12_Witness ==
    /\ op = "carousel"
    /\ ppc = "done"
    /\ Len(opLog) = 3
    /\ opLog[3].kind = "media_publish"
    /\ opLog[3].resp = "raises"
    /\ result = Error("exception")


-----------------------------------------------------------------------------
(* Claims about single-piece generation (SpecGen) *)

\* C5: generate_carousel_content and generate_video_content never raise; when
\* the primary backend call raises or its response does not parse, the piece
\* returned is the fallback piece of the requested kind.
C5_GenerationNeverRaises ==
    /\ ~graised
    /\ gpc = "done" =>
        /\ piece.source # "none"
        /\ piece.content_type = gkind
        /\ gprimary.out \in {"api_error", "unparsable"} =>
              /\ piece.source = "fallback"
              /\ piece.psychology_concept = "general support"
              /\ piece.slides = IF gkind = "carousel" THEN 5 ELSE 4

C5_Witness ==
    /\ gpc = "done"
    /\ gkind = "video"
    /\ gprimary.out = "unparsable"
    /\ piece.source = "fallback"
    /\ piece.content_type = "video"

StepFailed == \E i \in 1 .. Len(gsteps) : gsteps[i] = "raises"

\* C13 as stated: an exception in any sub-step (primary call, parsing, visual
\* prompt call, caption call) makes the operation return the fallback piece; a
\* piece built from the primary response is returned only when no sub-step failed.
C13_AnySubStepFailureGivesFallback ==
    gpc = "done" =>
        /\ StepFailed => piece.source = "fallback"
        /\ piece.source = "backend" => ~StepFailed

\* C13 as amended: the fallback piece is returned exactly when the primary call
\* raised, its response did not parse, or the parsed response could not be read
\* (not an object, slides not a list); a failure inside the visual-prompt call or
\* the caption call is absorbed by that sub-step, whose fixed prompts or fixed
\* caption go into the piece built from the primary response.
C13_OnlyPrimaryFailureGivesFallback ==
    gpc = "done" =>
        /\ piece.source = "fallback" <=>
              gprimary.out \in {"api_error", "unparsable", "not_object", "bad_slides"}
        /\ piece.source = "backend" <=> gprimary.out = "object"
        /\ piece.source = "backend" =>
              /\ piece.psychology_concept = gprimary.concept
              /\ piece.slides = gprimary.slides
              /\ Len(gsteps) = (IF gkind = "carousel" THEN 2 ELSE 1)
              /\ (gsteps[Len(gsteps)] = "raises") <=>
                    (piece.caption # <<"caption of the backend">>)
              /\ gkind = "carousel" =>
                    ((gsteps[1] = "raises") <=>
                        (piece.visual_prompts # <<"prompts of the backend">>
                         /\ Len(piece.visual_prompts) = 6
                         /\ piece.visual_prompts[2] = gprimary.motif))

C13_Witness ==
    /\ gpc = "done"
    /\ gkind = "carousel"
    /\ gsteps = <<"raises", "raises">>
    /\ piece.source = "backend"
    /\ piece.slides = 5
    /\ piece.caption = <<"Magical parenting wisdom for ", "test topic">>

\* C14: when the backend fails, generate_carousel_content returns a carousel
\* piece with 5 slides and generate_video_content a video piece with 4 slides,
\* both with psychology concept "general support", the requested theme and a
\* title made from the topic (the given one, or the drawn one when none is given).
C14_FallbackShape ==
    (gpc = "done" /\ gprimary.out \in {"api_error", "unparsable"}) =>
        /\ piece.content_type = gkind
        /\ gkind = "carousel" => piece.slides = 5
        /\ gkind = "video" => piece.slides = 4
        /\ piece.psychology_concept = "general support"
        /\ piece.theme = gtheme
        /\ gtopic # NoTopic => piece.title[2] = gtopic
        /\ gtopic = NoTopic => piece.title[2] \in TrendingTopics
        /\ piece.title[1] = (IF gkind = "carousel" THEN "Quick Tips for "
                             ELSE "Quick Video: ")

C14_Witness ==
    /\ gpc = "done"
    /\ gkind = "video"
    /\ gtheme = 7
    /\ gtopic = "test topic"
    /\ gprimary.out = "api_error"
    /\ piece.slides = 4
    /\ piece.title = <<"Quick Video: ", "test topic">>

WithoutTime(p) == [p EXCEPT !.created_at = 0]

\* C15: two fallback generations with the same theme, topic and kind return
\* pieces equal in every field except the creation timestamp, whatever concept
\* and motif each call drew before it failed.
C15_FallbackDeterministic ==
    \A f, g \in fallbacks :
        f.topic = g.topic => WithoutTime(f.piece) = WithoutTime(g.piece)

C15_Witness ==
    \E f, g \in fallbacks :
        /\ f.topic = g.topic
        /\ f.concept # g.concept
        /\ f.motif # g.motif
        /\ f.piece.created_at # g.piece.created_at
        /\ f.piece.content_type = "carousel"

\* C16: the hashtag list of every returned piece, built or fallback, has at
\* most 25 entries and begins with the 9 base tags in their order.
C16_HashtagsBeginWithBase ==
    piece.source # "none" =>
        /\ Len(piece.hashtags) <= 25
        /\ Len(piece.hashtags) >= 9
        /\ SubSeq(piece.hashtags, 1, 9) =
              << <<"#MagicalParenting">>, <<"#ParentingWisdom">>, <<"#ParentingTips">>,
                 <<"#ChildPsychology">>, <<"#ParentingSupport">>, <<"#BedtimeStories">>,
                 <<"#ParentingCommunity">>, <<"#RaisingKids">>, <<"#ParentingAdvice">> >>

ExpectedThemeTags ==
    << << <<"#MondayMotivation">>, <<"#ParentingMindset">> >>,
       << <<"#TuesdayTales">>, <<"#Storytelling">> >>,
       << <<"#WonderWednesday">>, <<"#ParentingQuestions">> >>,
       << <<"#ThoughtfulParenting">>, <<"#DeepThoughts">> >>,
       << <<"#FantasyFriday">>, <<"#WeekendFun">> >>,
       << <<"#StorySaturday">>, <<"#FamilyTime">> >>,
       << <<"#SereneParenting">>, <<"#SelfCare">> >> >>

ExpectedTopicTags(topic) ==
    CASE topic = "test topic" ->
            << <<"#", "test", "topic">>, <<"#", "test", "Tips", "topic">> >>
      [] topic = "toddler tantrums" ->
            << <<"#", "toddler", "tantrums">>, <<"#", "toddler", "Tips", "tantrums">> >>
      [] topic = "bedtime struggles" ->
            << <<"#", "bedtime", "struggles">>, <<"#", "bedtime", "Tips", "struggles">> >>

\* C17: _generate_hashtags returns the 9 base tags, then (video only) the 3
\* video tags, then the 2 tags of the theme, then the 2 tags made from the
\* topic: 13 entries for a carousel, 16 for a video, never more than 25.
C17_HashtagComposition ==
    piece.source = "backend" =>
        LET h == piece.hashtags
            v == IF gkind = "video" THEN 3 ELSE 0
        IN /\ Len(h) = 13 + v
           /\ Len(h) <= 25
           /\ \A i \in 1 .. 9 : h[i] = BaseHashtags[i]
           /\ gkind = "video" =>
                 SubSeq(h, 10, 12) = << <<"#ParentingVideo">>, <<"#InstagramVideo">>,
                                        <<"#ParentingReel">> >>
           /\ gkind = "carousel" =>
                 \A i \in 1 .. Len(h) :
                     h[i] \notin {<<"#ParentingVideo">>, <<"#InstagramVideo">>,
                                  <<"#ParentingReel">>}
           /\ SubSeq(h, 10 + v, 11 + v) = ExpectedThemeTags[gtheme]
           /\ SubSeq(h, 12 + v, 13 + v) = ExpectedTopicTags(gprimary.topic)

C17_Witness ==
    /\ gpc = "done"
    /\ gkind = "video"
    /\ gtheme = 3
    /\ piece.source = "backend"
    /\ Len(piece.hashtags) = 16
    /\ piece.hashtags[13] = <<"#WonderWednesday">>
    /\ piece.hashtags[16] = <<"#", "test", "Tips", "topic">>

\* C18: every returned piece has the slide count of its kind (5 for a carousel,
\* 4 for a video), at most 25 hashtags and one of the 7 themes.
C18_PieceInvariant ==
    piece.source # "none" =>
        /\ piece.slides = (IF piece.content_type = "carousel" THEN 5 ELSE 4)
        /\ Len(piece.hashtags) <= 25
        /\ piece.theme \in 1 .. 7

-----------------------------------------------------------------------------
(* Claims about get_daily_theme (SpecCalendar) *)

LoggedDates == {themeLog[i].date : i \in 1 .. Len(themeLog)}
ThemesFrom(d) == {themeLog[i].theme : i \in {j \in 1 .. Len(themeLog) :
                                           themeLog[j].date \in d .. d + 6}}

\* C19: get_daily_theme returns one of the 7 themes on every date, the first on
\* a Monday through to the seventh on a Sunday (day 22 is a Monday), the same
\* theme on dates a whole number of weeks apart, and over any 7 consecutive
\* days each of the 7 themes exactly once.
C19_ThemeByWeekday ==
    /\ \A i \in 1 .. Len(themeLog) :
          /\ themeLog[i].theme \in 1 .. 7
          /\ themeLog[i].theme = ((themeLog[i].date - 22) % 7) + 1
    /\ \A i, j \in 1 .. Len(themeLog) :
          /\ (themeLog[i].date - themeLog[j].date) % 7 = 0 =>
                themeLog[i].theme = themeLog[j].theme
          /\ (themeLog[i].date - themeLog[j].date) \in 1 .. 6 =>
                themeLog[i].theme # themeLog[j].theme
    /\ \A d \in LoggedDates :
          (d .. d + 6) \subseteq LoggedDates => ThemesFrom(d) = 1 .. 7

C19_Witness ==
    /\ Len(themeLog) = 8
    /\ \A i \in 1 .. 8 : themeLog[i].date = 23 + i
    /\ themeLog[1].theme = 3
    /\ themeLog[5].theme = 7
    /\ themeLog[6].theme = 1
    /\ themeLog[8].theme = 3

-----------------------------------------------------------------------------
(* Claims about generate_weekly_content (SpecWeekly) *)

DayEvents(d) ==
    IF d \in {0, 2, 4}
    THEN << <<"start", d, "carousel">>, <<"return", d, "carousel">>,
            <<"start", d, "video">>, <<"return", d, "video">> >>
    ELSE << <<"start", d, "carousel">>, <<"return", d, "carousel">> >>

WeekEvents == DayEvents(0) \o DayEvents(1) \o DayEvents(2) \o DayEvents(3)
              \o DayEvents(4) \o DayEvents(5) \o DayEvents(6)

DayLists == {weekly_content[k] : k \in DOMAIN weekly_content}

RECURSIVE SumLen(_)
SumLen(S) == IF S = {} THEN 0
             ELSE LET x == CHOOSE y \in S : TRUE IN Len(x) + SumLen(S \ {x})

\* C20: generate_weekly_content runs its generations one after the other,
\* themes 1 to 7 in order, a carousel at every day position and after it a
\* video at positions 0, 2 and 4 only; what it returns has 7 day entries with
\* 10 pieces in all, each entry the carousel of one theme followed by that
\* theme's video if any, whichever generations fell back.
C20_WeeklyShape ==
    /\ IsPrefix(wevents, WeekEvents)
    /\ \A l \in DayLists :
          /\ l[1].content_type = "carousel"
          /\ Len(l) = (IF l[1].theme \in {1, 3, 5} THEN 2 ELSE 1)
          /\ Len(l) = 2 => l[2].content_type = "video" /\ l[2].theme = l[1].theme
    /\ \A k1, k2 \in DOMAIN weekly_content :
          k1 # k2 => weekly_content[k1][1].theme # weekly_content[k2][1].theme
    /\ Cardinality(DOMAIN weekly_content) = day_num
    /\ wpc = "done" =>
          /\ wevents = WeekEvents
          /\ Cardinality(DOMAIN weekly_content) = 7
          /\ {l[1].theme : l \in DayLists} = 1 .. 7
          /\ SumLen(DayLists) = 10

C20_Witness ==
    /\ wpc = "done"
    /\ wfailed = 2
    /\ wrolled = 1
    /\ Cardinality(DOMAIN weekly_content) = 7
    /\ \E k \in DOMAIN weekly_content :
          /\ Len(weekly_content[k]) = 2
          /\ weekly_content[k][1].source = "fallback"
          /\ weekly_content[k][2].source = "backend"

-----------------------------------------------------------------------------
(* Claims about generate_bot_teaser_campaign (SpecCampaign) *)

ExpectedTeaserTopic(i) ==
    CASE i = 1 -> "Behind the scenes: Building magical stories for your kids"
      [] i = 2 -> "What if bedtime stories adapted to your child's choices?"
      [] i = 3 -> "The psychology behind interactive storytelling"
      [] i = 4 -> "Sneak peek: AI that creates personalized fairy tales"

\* the return event of the i-th generation
ReturnEvent(i) == cevents[2 * i]

\* C21: generate_bot_teaser_campaign generates one carousel per campaign topic,
\* one after the other in the fixed order, and returns the 4 pieces in that
\* order; a topic whose backend call failed has the fallback piece for that
\* topic at its position, the other positions being unaffected.
C21_CampaignShape ==
    /\ Len(campaign_content) = cidx
    /\ cidx <= 4
    /\ \A j \in 1 .. Len(cevents) :
          /\ cevents[j][1] = (IF j % 2 = 1 THEN "start" ELSE "return")
          /\ cevents[j][2] = (j + 1) \div 2
    /\ \A i \in 1 .. Len(campaign_content) :
          LET p == campaign_content[i]
          IN /\ p.content_type = "carousel"
             /\ p.theme = 6
             /\ p.title[2] = ExpectedTeaserTopic(i)
             /\ (ReturnEvent(i)[3] = "api_error") <=> (p.source = "fallback")
             /\ p.source = "fallback" =>
                   /\ p.title = <<"Quick Tips for ", ExpectedTeaserTopic(i)>>
                   /\ p.slides = 5
    /\ cpc = "done" => Len(campaign_content) = 4 /\ Len(cevents) = 8

C21_Witness ==
    /\ cpc = "done"
    /\ campaign_content[1].source = "backend"
    /\ campaign_content[2].source = "fallback"
    /\ campaign_content[2].title[2] =
          "What if bedtime stories adapted to your child's choices?"
    /\ campaign_content[3].source = "backend"
    /\ campaign_content[4].source = "backend"

-----------------------------------------------------------------------------
(* Claims about _calculate_optimal_time (SpecSchedule) *)

\* the hour:minute of the post scheduled for index i, when its jitter was 0
ZeroJitterPosts == {scheduled_posts[k] : k \in {j \in 1 .. Len(scheduled_posts) :
                                                  scheduled_posts[j].jitter = 0}}
HoursAtIndex0To4 ==
    \A p \in ZeroJitterPosts :
        p.index \in 0 .. 4 =>
            /\ p.scheduled_time.hour = 9 + 3 * p.index
            /\ p.scheduled_time.minute = 0
            /\ p.scheduled_time.date = FirstStartDay

\* C22 as stated: with jitter 0 the posts of indices 0 to 4 are at 09:00, 12:00,
\* 15:00, 18:00 and 21:00 on the start date, and the post of index 5 at 11:00.
C22_IndexFiveAtEleven ==
    /\ HoursAtIndex0To4
    /\ \A p \in ZeroJitterPosts :
          p.index = 5 => p.scheduled_time.hour = 11 /\ p.scheduled_time.minute = 0

\* C22 as amended: with jitter 0 the posts of indices 0 to 4 are at 09:00,
\* 12:00, 15:00, 18:00 and 21:00 on the start date, and the post of index 5,
\* which takes the 2-hour-step branch, at 19:00 (9 + 5 * 2); the computation
\* returns for each of these indices.
C22_IndexFiveAtNineteen ==
    /\ HoursAtIndex0To4
    /\ \A p \in ZeroJitterPosts :
          p.index = 5 => /\ p.scheduled_time.hour = 19
                         /\ p.scheduled_time.minute = 0
                         /\ p.scheduled_time.date = FirstStartDay
    /\ spc = "raised" => sidx >= 6

C22_Witness ==
    /\ Len(scheduled_posts) >= 6
    /\ \A k \in 1 .. 6 : scheduled_posts[k].jitter = 0
    /\ scheduled_posts[5].scheduled_time.hour = 21
    /\ scheduled_posts[6].index = 5
    /\ scheduled_posts[6].scheduled_time.hour = 19

\* C23: for every post index the hour computed before the jitter lies between
\* 9 and 21, and the computation never fails.
C23_NeverPastCeiling ==
    /\ spc # "raised"
    /\ \A k \in 1 .. Len(scheduled_posts) :
          scheduled_posts[k].base_hour \in 9 .. 21

-----------------------------------------------------------------------------
(* Claims about _estimate_engagement (SpecEngagement) *)

Bonus(cond, amount) == IF cond THEN amount ELSE 0
IsHigh(c) == c \in {"emotional regulation", "positive reinforcement", "growth mindset",
                    "empathy development"}
IsEngaging(m) == m \in {"fairy tale lessons", "dragon courage", "unicorn compassion",
                        "enchanted forest wisdom"}
Estimated == estimate # NoEstimate

\* C24: the engagement rate is 5% plus 2% for a high-performing concept, 1.5%
\* for an engaging motif, 3% for a video and 1% for a Saturday or Sunday theme,
\* each counted once, summed in any order, and never above 12.5% (rates in
\* hundredths of a percent).
C24_RateIsSumOfBonuses ==
    Estimated =>
        LET r == estimate.estimated_engagement_rate
        IN /\ r = Bonus(etheme \in {6, 7}, 100) + Bonus(ekind = "video", 300)
                  + Bonus(IsEngaging(emotif), 150) + Bonus(IsHigh(econcept), 200) + 500
           /\ r >= 500
           /\ r <= 1250

C24_Witness ==
    /\ Estimated
    /\ econcept = "growth mindset"
    /\ emotif = "dragon courage"
    /\ ekind = "video"
    /\ etheme = 7
    /\ estimate.estimated_engagement_rate = 1250

\* C25: the rate of a piece that meets a bonus condition is strictly higher
\* than the rate of the same piece without that condition.
C25_RateMonotonic ==
    Estimated =>
        LET r == estimate.estimated_engagement_rate
        IN /\ ekind = "video" =>
                 r > EngagementRate(econcept, emotif, "carousel", etheme)
           /\ IsHigh(econcept) =>
                 r > EngagementRate("attachment theory", emotif, ekind, etheme)
           /\ etheme \in {6, 7} =>
                 r > EngagementRate(econcept, emotif, ekind, 1)
           /\ IsEngaging(emotif) =>
                 r > EngagementRate(econcept, "wizard patience", ekind, etheme)
           /\ ekind = "carousel" =>
                 r < EngagementRate(econcept, emotif, "video", etheme)
           /\ ~IsEngaging(emotif) =>
                 r < EngagementRate(econcept, "dragon courage", ekind, etheme)

C25_Witness ==
    /\ Estimated
    /\ ekind = "video"
    /\ emotif = "dragon courage"
    /\ econcept = "growth mindset"
    /\ etheme = 6
    /\ EngagementRate("attachment theory", "wizard patience", "carousel", 1) = 500

\* C26: for every reach from 500 to 2000 and every rate, the engagement count
\* being reach times rate truncated, the likes, comments and saves are at most
\* 70%, 20% and 10% of the count, less than one below them (the likes less than
\* two), and together at most the count.
C26_SplitWithinCount ==
    Estimated =>
        LET reach == estimate.estimated_reach
            count == (reach * estimate.estimated_engagement_rate) \div 10000
            l == estimate.estimated_likes
            c == estimate.estimated_comments
            s == estimate.estimated_saves
        IN /\ reach \in 500 .. 2000
           /\ l >= 0 /\ c >= 0 /\ s >= 0
           /\ 10 * l <= 7 * count /\ 7 * count < 10 * (l + 2)
           /\ 10 * c <= 2 * count /\ 2 * count < 10 * (c + 1)
           /\ 10 * s <= count /\ count < 10 * (s + 1)
           /\ l + c + s <= count

C26_Witness ==
    /\ Estimated
    /\ estimate.estimated_reach = 2000
    /\ estimate.estimated_engagement_rate = 900
    /\ estimate.estimated_likes = 125
    /\ estimate.estimated_comments = 36
    /\ estimate.estimated_saves = 18

-----------------------------------------------------------------------------
(* Claims about the generation tasks and local recovery (SpecRetry) *)

\* C27: when the backend fails on every call of a generate_daily_content run,
\* the engine recovers with fallback content and the task completes on its first
\* execution with status success carrying that content: no retry is requested,
\* no delay is computed and no exception leaves the task.
C27_BackendFailureRecoveredLocally ==
    (task = "generate_daily_content" /\ Len(envLog) >= 1 /\ envLog[1] = "backend_down") =>
        /\ tstate = "Success"
        /\ trace = <<"Pending", "Running", "Success">>
        /\ executions = 1
        /\ retries = 0
        /\ delays = <<>>
        /\ excLog = <<NoExc>>
        /\ propagated = NoExc
        /\ returned = [status |-> "success", content |-> "fallback"]

C27_Witness ==
    /\ task = "generate_daily_content"
    /\ envLog = <<"backend_down">>
    /\ tstate = "Success"
    /\ returned.status = "success"
    /\ returned.content = "fallback"

-----------------------------------------------------------------------------
(* Claims about the rate window across operations and attempts *)

\* the execution of the task function that this step performs is a retry
\* attempt that went through _check_rate_limit
RetryAttemptThroughGate ==
    /\ task = "publish_scheduled_content"
    /\ tstate = "Running"
    /\ tstate' # "Running"
    /\ retries >= 1
    /\ GatePassed(envLog'[Len(envLog')])

\* C29: the rate window is shared by the successive attempts of one
\* publish_scheduled_content task: a retry attempt that goes through the rate
\* check while the window opened by an earlier attempt is still running, below
\* the limit, is counted in that window (the count is one higher and the window
\* start is unchanged); the count is not reset because a new attempt starts.
C29_WindowSharedAcrossAttempts ==
    [][(/\ RetryAttemptThroughGate
        /\ request_count >= 1
        /\ ~AtLimit(request_count)
        /\ clock - last_request_time <= 3600)
       => (/\ request_count' = request_count + 1
           /\ last_request_time' = last_request_time)]_vars

\* C30: a call of _check_rate_limit made more than 3600 seconds after the window
\* start resets the counter and sets the window start to the current time before
\* the limit test: the call is admitted without suspension (no caller starts
\* to sleep, the call returns at once) and is the first request of the new
\* window, whatever the counter was.
C30_ResetBeforeLimitTest ==
    [][(nCalls' = nCalls + 1 /\ clock - last_request_time > 3600)
       => (/\ request_count' = 1
           /\ last_request_time' = clock
           /\ cstate' = cstate
           /\ callsInWindow' = 1
           /\ \E p \in Callers : /\ callIdx'[p] = 1
                                 /\ callIdx'[p] # callIdx[p] \/ callWinStart'[p] # callWinStart[p]
                                 /\ ~callSuspended'[p]
                                 /\ callReturned'[p] = clock
                                 /\ callWinStart'[p] = clock)]_vars

\* a call was admitted as the first of a window that began more than 3600
\* seconds after the first window, after the limit had been reached there
C30_Witness ==
    /\ nCalls >= rate_limit + 1
    /\ request_count = 1
    /\ last_request_time > 3600
    /\ \E p \in Callers : /\ callIdx[p] = 1
                          /\ callWinStart[p] = last_request_time
                          /\ callReturned[p] = last_request_time
                          /\ ~callSuspended[p]
                          /\ cstate[p] = "idle"
    /\ \A p \in Callers : cstate[p] = "idle" /\ callReturned[p] >= 0

-----------------------------------------------------------------------------
(* Claims about reaching the rate limit (SpecPublishLive) *)

\* this step is an operation entering _check_rate_limit
OperationArrives == opsDone' = opsDone + 1

\* the operation left _check_rate_limit normally, in the window its wake-up opened
ProceededAfterReset ==
    /\ ppc \in {"create", "publish"}
    /\ result = NoResult
    /\ request_count = 1
    /\ last_request_time >= pWakeAt

\* C28: an operation that enters _check_rate_limit when the counter has reached
\* the limit and the window is still running is suspended, with no result and
\* no error, until the window start plus 3600 seconds; a suspended operation
\* does not leave the check before that time and eventually leaves it normally,
\* as the first request of a new window; and an operation returns an error
\* result only after a request of its own was answered with a failure, never
\* because of the limit.
C28_LimitSuspendsThenProceeds ==
    /\ [][(/\ OperationArrives
             /\ request_count >= rate_limit
             /\ clock - last_request_time < 3600)
            => (/\ ppc' = "sleeping"
                /\ result' = NoResult
                /\ opLog' = <<>>
                /\ pWakeAt' = last_request_time + 3600
                /\ request_count' = request_count)]_vars
    /\ [][(ppc = "sleeping" /\ ppc' # "sleeping")
            => (clock >= pWakeAt /\ ProceededAfterReset')]_vars
    /\ [](result.status = "error" =>
             /\ Len(opLog) >= 1
             /\ opLog[Len(opLog)].resp # "200")
    /\ [](ppc = "sleeping" => result = NoResult)
    /\ ((ppc = "sleeping" /\ pWakeAt <= MaxClock) ~> ProceededAfterReset)

\* an operation that was suspended at the limit has published
C28_Witness ==
    /\ opsDone >= 2
    /\ pWakeAt = 3600
    /\ last_request_time >= pWakeAt
    /\ request_count = 1
    /\ result.status = "published"

-----------------------------------------------------------------------------
(* Claims about termination of the tasks (SpecRetryLive) *)

Terminal == tstate \in {"Success", "Failed"}

\* C34: every retry-wrapped task terminates: whatever its executions meet, it
\* reaches Success or Failed, it is executed at most max_retries + 1 = 4 times,
\* request.retries never exceeds 3, and once it is in Success or Failed nothing
\* is executed or changed any more.
C34_TaskTerminates ==
    /\ [](/\ executions <= 4
          /\ retries <= 3
          /\ Len(envLog) <= 4
          /\ Len(delays) <= 3
          /\ retries <= executions)
    /\ [][Terminal => (/\ tstate' = tstate
                        /\ executions' = executions
                        /\ retries' = retries
                        /\ envLog' = envLog
                        /\ delays' = delays)]_vars
    /\ <>Terminal

C34_Witness ==
    /\ task = "generate_bot_teaser_campaign"
    /\ tstate = "Failed"
    /\ executions = 4
    /\ retries = 3
    /\ Len(envLog) = 4
    /\ delays = <<600, 1200, 2400>>

-----------------------------------------------------------------------------
(* Claims about the counter of the rate window (SpecRate) *)

\* C32: after any sequence of _check_rate_limit calls, a call exactly 3600
\* seconds after the window start and callers resuming from suspension
\* included, request_count is between 0 and the configured limit.
C32_CountWithinLimit == request_count \in 0 .. rate_limit

\* C33: after any interleaving of callers on one publisher, request_count is
\* the number of callers admitted since the current window start; a caller
\* resuming later never erases the admission of one that resumed before it.
C33_CountIsAdmissions == request_count = admittedInWindow

-----------------------------------------------------------------------------
(* Claims relating generate_weekly_content to get_daily_theme (SpecWeekly) *)

\* the day on which the call began
WeekStart == wnow - wrolled

\* the days a key of the result can stand for
KeyDays == WeekStart .. WeekStart + 6 + MaxRollovers

\* C39: in the result of generate_weekly_content, started on any weekday, the
\* pieces stored under each date key have the theme get_daily_theme returns on
\* that date, and the 7 keys are the 7 consecutive days beginning with the
\* start day.
C39_WeeklyThemesFollowCalendar ==
    /\ \A k \in DOMAIN weekly_content :
          \E d \in KeyDays :
             /\ k = DateKey(d)
             /\ \A i \in 1 .. Len(weekly_content[k]) :
                   weekly_content[k][i].theme = DailyTheme(d)
    /\ wpc = "done" =>
          DOMAIN weekly_content = {DateKey(WeekStart + i) : i \in 0 .. 6}

-----------------------------------------------------------------------------
(* Claims about the batch schedule_content returns (SpecSchedule) *)

\* C37: for a batch of any size schedule_content returns one entry per input
\* piece, in input order, each with status scheduled, a posting time on the
\* start date and an engagement estimate; it never raises because of the size
\* of the batch.
C37_OneEntryPerPiece ==
    /\ spc # "raised"
    /\ Len(scheduled_posts) = sidx
    /\ spc = "done" => Len(scheduled_posts) = batch
    /\ \A k \in 1 .. Len(scheduled_posts) :
          LET p == scheduled_posts[k]
          IN /\ p.content = BatchPiece(k - 1)
             /\ p.status = "scheduled"
             /\ p.scheduled_time.date = FirstStartDay
             /\ p.scheduled_time.hour \in 0 .. 23
             /\ p.estimated_engagement.estimated_reach \in 500 .. 2000
             /\ p.estimated_engagement.estimated_engagement_rate >= 500

MinuteOfDay(t) == t.hour * 60 + t.minute

\* C38: within one batch and with jitter 0, the posting time is strictly
\* increasing in the index: distinct indices get distinct hours and no two
\* pieces of a batch are scheduled for the same time.
C38_TimesIncreaseWithIndex ==
    \A p, q \in ZeroJitterPosts :
        p.index < q.index =>
            /\ p.scheduled_time.date = q.scheduled_time.date
            /\ MinuteOfDay(p.scheduled_time) < MinuteOfDay(q.scheduled_time)

-----------------------------------------------------------------------------
(* Claims about the status of scheduled posts (SpecSchedulePublish) *)

\* this step ends a publishing operation
PublishEnds == ppc # "done" /\ ppc' = "done"

\* the entries of the schedule that wrap the piece the operation publishes
PostsOfPublishedPiece ==
    {k \in 1 .. Len(scheduled_posts) : scheduled_posts[k].content.content_type = op}

StatusChanges ==
    \E k \in 1 .. Len(scheduled_posts) :
        scheduled_posts'[k].status # scheduled_posts[k].status

\* C31: a scheduled post is created with status scheduled; when a publishing
\* operation on its piece ends, its status becomes posted if the operation
\* published and failed if it returned an error; the status changes in no other
\* step, so posted or failed is never reached without a publish attempt.
C31_StatusFollowsPublish ==
    /\ [][Len(scheduled_posts') > Len(scheduled_posts) =>
             scheduled_posts'[Len(scheduled_posts')].status = "scheduled"]_vars
    /\ [][(spc = "done" /\ PublishEnds) =>
             \A k \in PostsOfPublishedPiece :
                 scheduled_posts'[k].status =
                     (IF result'.status = "published" THEN "posted" ELSE "failed")]_vars
    /\ [][(Len(scheduled_posts') = Len(scheduled_posts) /\ StatusChanges)
             => PublishEnds]_vars

-----------------------------------------------------------------------------
(* Claims about one publish_scheduled_content operation (SpecTaskPublish) *)

RetryRequested == tstate = "Running" /\ tstate' = "Retrying"

TokenPresent == \A i \in 1 .. Len(envLog) : envLog[i] # "no_access_token"

\* C36: when the platform answers every request with status 200, the content
\* type is carousel or video, media_urls is not empty and the publisher has its
\* access token, the first execution of publish_scheduled_content returns
\* status success with the identifier the platform gave to the post, and no
\* retry is requested.
C36_FirstAttemptSucceeds ==
    (/\ task = "publish_scheduled_content"
     /\ platform = "always_200"
     /\ op \in PublishTypes
     /\ nUrls >= 1
     /\ TokenPresent
     /\ executions >= 1
     /\ tstate # "Running")
    => (/\ tstate = "Success"
        /\ executions = 1
        /\ delays = <<>>
        /\ returned.status = "success"
        /\ result.status = "published"
        /\ result.id # NoId
        /\ result.id = opLog[Len(opLog)].rid)

=============================================================================
